---- MODULE Spec2Model ----
(***************************************************************************)
(* Model of the LIO-SEGMOT back-end (src/src/mapOptimization.cpp): the     *)
(* LiDAR handler of the main loop, the detection request task, the         *)
(* loop-closure task and the global-map visualization task, with the       *)
(* object tracker (propagation, data association, tight/loose coupling,    *)
(* birth, retirement) and the driver of the incremental solver.            *)
(*                                                                         *)
(* Geometry is abstracted: the results of getDetectionIndexAndError, the   *)
(* keyframe test and the solver's estimates are inputs drawn from small    *)
(* sets; everything the handler does with them follows the source.         *)
(***************************************************************************)
EXTENDS Integers, Sequences, FiniteSets, TLC

\* ------------------------------------------------------------------ bounds
MaxSteps == 3            \* processed LiDAR steps
MaxDetections == 2       \* boxes in one detection response
MaxObjects == 2          \* objects ever registered
MaxPreLoose == 1         \* range of numberOfPreLooseCouplingSteps
MaxInterLoose == 3       \* range of numberOfInterLooseCouplingSteps
MaxLoops == 1            \* loop constraints ever enqueued
MaxGps == 1              \* GPS messages ever received
MaxDetectionsMapping == 1 \* boxes in one response of the mapping specification
MaxObjectsMapping == 1   \* objects ever registered in the mapping specification
MaxStepsMapping == 3     \* processed LiDAR steps of the mapping specification
MaxStepsLifecycle == 4   \* processed LiDAR steps of the lifecycle specification
MaxDetectionsLifecycle == 1
MaxObjectsLifecycle == 2
MaxStepsTasks == 3       \* processed LiDAR steps of the task specification
MaxStepsKeyframe == 2    \* processed LiDAR steps of the keyframe specification
MaxLoopInfo == 6         \* two-element loop-info messages ever received
MaxStepsLoopInfo == 2    \* processed LiDAR steps of the loop-info specification
MaxLoopsExternal == 2    \* loop constraints ever enqueued with external loop info
MaxLoopInfoExternal == 2 \* two-element loop-info messages of that specification
MaxStepsExternal == 3    \* processed LiDAR steps of that specification
MaxStepsLock == 3        \* processed LiDAR steps of the lock specification
MaxLoopsLock == 2        \* loop constraints ever enqueued in the lock specification
MaxStepsDegenerate == 4  \* processed LiDAR steps of the degeneracy specification
MaxStepsScan == 2        \* processed LiDAR steps of the scan matching specification
MaxGpsFixes == 2         \* GPS messages ever received in the GPS specification
MaxStepsGps == 4         \* processed LiDAR steps of the GPS specification

\* ------------------------------------------------- configuration, sentinels
trackingStepsForLostObject == 1
numberOfVelocityConsistencySteps == 2
numberOfEarlySteps == 1
surroundingkeyframeAddingAngleThreshold == 2
surroundingkeyframeAddingDistThreshold == 2
historyKeyframeSearchTimeDiff == 2
rotation_tollerance == 4 \* in the angle unit of the scan matching inputs
z_tollerance == 4
imuRPYWeightPercent == 50
objectLinearVelocityConsistencyVarianceThreshold == 1
NoNode == -1             \* uint64_t(-1), the index of a lost track
IntMax == 2147483647
NoDetection == [stamp |-> 0, idx |-> 0]
VelValues == {0, 2}      \* abstract one-dimensional velocity estimates

VARIABLES
  \* configuration read by the ParamServer
  numberOfPreLooseCouplingSteps, numberOfInterLooseCouplingSteps,
  \* main loop (laserCloudInfoHandler) and the lock mtx
  pc, mtxOwner, stepCount, requiredSaveFrame,
  \* detection request task
  detPc, detections, detectionIsActive, detLaunched,
  \* factor graph bookkeeping
  numberOfNodes, keyPoseIndices, numberOfRegisteredObjects,
  numberOfTrackingObjects, objects, pathLen,
  aLoopIsClosed, anyObjectIsTightlyCoupled,
  \* solver
  isamKeys, isamCurrentEstimate, prevEstimate, solverCalls, poseCovariance,
  \* data association of the last step
  assocLog,
  \* the operations of the last step on the graphs, the solver, the stores
  \* and the publishers, in program order
  stepTrace,
  \* the tracks born in the last step as addDetectionFactor has left them
  birthLog,
  \* the scan of the last step, and transformTobeMapped before and after
  \* scan2MapOptimization
  scanLog,
  \* the degeneracy flag and the projection of LMOptimization
  isDegenerate, matP,
  \* the step that computed them last, the directions cv::eigen found
  \* degenerate in the last step, and the flag and projection at every
  \* update of transformTobeMapped in the last step
  degenerateLog,
  \* keyframe store, path, sub-map cache
  cloudKeyPoses, keyFrameClouds, globalPath, laserCloudMapContainer,
  \* cloudKeyPoses6D and surfCloudKeyFrames; cloudKeyPoses is cloudKeyPoses3D
  \* and keyFrameClouds is cornerCloudKeyFrames
  cloudKeyPoses6D, surfCloudKeyFrames,
  \* the motion since the last keyframe that saveFrame has looked at
  transBetween,
  \* whether the first and the latest key pose were 5 m apart or more when
  \* the last step began
  keyPosesFarApart,
  \* loop closure
  loopIndexQueue, loopPoseQueue, loopNoiseQueue, loopIndexContainer,
  loopPc, copyKeyPoses, loopKeyCur, loopKeyPre,
  \* external loop info: the queue, every two-element message received and
  \* the number of messages detectLoopClosureExternal has taken
  loopInfoVec, loopInfoLog, loopInfoTaken,
  \* every constraint pushed on loopIndexQueue and every one added to the graph
  loopIndexEnqueued, loopIndexAdded,
  \* global map visualization
  vizPc,
  \* GPS
  gpsQueue, lastGPSPoint, gpsReceived

cfgVars == <<numberOfPreLooseCouplingSteps, numberOfInterLooseCouplingSteps>>
mainVars == <<pc, mtxOwner, stepCount, requiredSaveFrame>>
detVars == <<detPc, detections, detectionIsActive, detLaunched>>
graphVars == <<numberOfNodes, keyPoseIndices, numberOfRegisteredObjects,
               numberOfTrackingObjects, objects, aLoopIsClosed,
               anyObjectIsTightlyCoupled>>
solverVars == <<isamKeys, isamCurrentEstimate, prevEstimate, solverCalls,
                poseCovariance, assocLog, stepTrace, scanLog, birthLog,
                isDegenerate, matP, degenerateLog>>
storeVars == <<cloudKeyPoses, keyFrameClouds, globalPath, laserCloudMapContainer,
               transBetween, keyPosesFarApart, cloudKeyPoses6D, surfCloudKeyFrames>>
loopQueueVars == <<loopIndexQueue, loopPoseQueue, loopNoiseQueue>>
loopVars == <<loopIndexContainer, loopPc, copyKeyPoses, loopKeyCur, loopKeyPre>>
gpsVars == <<gpsQueue, lastGPSPoint, gpsReceived>>
loopInfoVars == <<loopInfoVec, loopInfoLog, loopInfoTaken>>
loopLogVars == <<loopIndexEnqueued, loopIndexAdded>>
vars == <<cfgVars, mainVars, detVars, graphVars, solverVars, pathLen, storeVars,
          loopQueueVars, loopVars, vizPc, gpsVars, loopInfoVars, loopLogVars>>

\* ----------------------------------------------------------------- helpers
Last(s) == s[Len(s)]

abs(v) == IF v < 0 THEN 0 - v ELSE v

RECURSIVE SortedSeq(_)
SortedSeq(S) ==
  IF S = {} THEN <<>>
  ELSE LET m == CHOOSE x \in S : \A y \in S : x <= y
       IN <<m>> \o SortedSeq(S \ {m})

RECURSIVE SumSeq(_)
SumSeq(s) == IF s = <<>> THEN 0 ELSE s[1] + SumSeq(Tail(s))

EmptyFn == [x \in {} |-> 0]

\* ObjectState(): the default-constructed track
ObjectState ==
  [poseNodeIndex |-> 0, velocityNodeIndex |-> 0, objectIndex |-> 0,
   objectIndexForTracking |-> 0, lostCount |-> 0, trackScore |-> 0,
   timestamp |-> 0, detection |-> NoDetection, confidence |-> 0,
   velocity |-> 0, isTightlyCoupled |-> FALSE, isFirst |-> FALSE,
   previousVelocityNodeIndices |-> <<>>]

\* Values::at throws for a key that is not there; Missing stands for that
Missing == -99
At(estimate, key) == IF key \in DOMAIN estimate THEN estimate[key] ELSE Missing

\* ObjectState::velocityIsConsistent, in one dimension: the mean squared
\* deviation of the last samplingSize velocity estimates from their mean,
\* divided by the variance threshold, must be below 1.  That is
\*   sum_i (v_i - S/K)^2 / (K * thr) < 1  <=>  sum_i (K*v_i - S)^2 < K^3 * thr.
velocityIsConsistent(object, samplingSize, currentEstimates, threshold) ==
  LET prev == object.previousVelocityNodeIndices
      size == Len(prev)
  IN IF size < samplingSize THEN FALSE
     ELSE LET vs == [i \in 1..samplingSize |-> At(currentEstimates, prev[size - i + 1])]
              S == SumSeq(vs)
              K == samplingSize
              dev == [i \in 1..K |-> (K * vs[i] - S) * (K * vs[i] - S)]
          IN SumSeq(dev) < K * K * K * threshold

\* ------------------------------------------------------------ factor records
Factor(type, keys, obj, j) == [type |-> type, keys |-> keys, obj |-> obj, j |-> j]

\* timeLaserInfoCur of a step, in units of 0.2 s (two units between scans)
ScanTime(step) == 2 * step

\* The state a call of saveKeyFramesAndFactor works on.
Context ==
  [n |-> numberOfNodes, kpi |-> keyPoseIndices, nro |-> numberOfRegisteredObjects,
   nto |-> numberOfTrackingObjects, objs |-> objects,
   g |-> <<>>, gl |-> <<>>, ie |-> {}, iel |-> {},
   loop |-> aLoopIsClosed, tight |-> anyObjectIsTightlyCoupled,
   liq |-> loopIndexQueue, lpq |-> loopPoseQueue, lnq |-> loopNoiseQueue,
   gq |-> gpsQueue, lastGPS |-> lastGPSPoint,
   ind |-> {}, toi |-> EmptyFn, log |-> EmptyFn]

\* mapOptimization::addOdomFactor
addOdomFactor(c) ==
  IF cloudKeyPoses = <<>>
  THEN [c EXCEPT !.n = c.n + 1,
                 !.kpi = Append(c.kpi, c.n),
                 !.g = Append(c.g, Factor("Prior", <<0>>, -1, -1)),
                 !.ie = c.ie \cup {c.n}]
  ELSE [c EXCEPT !.n = c.n + 1,
                 !.kpi = Append(c.kpi, c.n),
                 !.g = Append(c.g, Factor("Between", <<Last(c.kpi), c.n>>, -1, -1)),
                 !.ie = c.ie \cup {c.n}]

\* variant of gpsLoop without the test of the distance to lastGPSPoint
RECURSIVE gpsLoopAtAnyDistance(_, _)
gpsLoopAtAnyDistance(c, t) ==
  IF c.gq = <<>> THEN c
  ELSE LET m == Head(c.gq) IN
    IF m.stamp < t - 1 THEN gpsLoopAtAnyDistance([c EXCEPT !.gq = Tail(c.gq)], t)
    ELSE IF m.stamp > t + 1 THEN c
    ELSE LET d == [c EXCEPT !.gq = Tail(c.gq)] IN
      IF m.noisy THEN gpsLoopAtAnyDistance(d, t)
      ELSE IF m.pos = 0 THEN gpsLoopAtAnyDistance(d, t)
      ELSE [d EXCEPT !.lastGPS = m.pos,
                     !.g = Append(d.g, Factor("GPS", <<Len(cloudKeyPoses)>>, -1, -1)),
                     !.loop = TRUE]

\* the while loop of addGPSFactor over the queue
RECURSIVE gpsLoop(_, _)
gpsLoop(c, t) ==
  IF c.gq = <<>> THEN c
  ELSE LET m == Head(c.gq) IN
    IF m.stamp < t - 1 THEN gpsLoop([c EXCEPT !.gq = Tail(c.gq)], t)
    ELSE IF m.stamp > t + 1 THEN c
    ELSE LET d == [c EXCEPT !.gq = Tail(c.gq)] IN
      IF m.noisy THEN gpsLoop(d, t)
      ELSE IF m.pos = 0 THEN gpsLoop(d, t)
      ELSE IF m.pos = d.lastGPS THEN gpsLoop(d, t)
      ELSE [d EXCEPT !.lastGPS = m.pos,
                     !.g = Append(d.g, Factor("GPS", <<Len(cloudKeyPoses)>>, -1, -1)),
                     !.loop = TRUE]

\* mapOptimization::addGPSFactor; farFromStart abstracts
\* pointDistance(cloudKeyPoses3D->front(), cloudKeyPoses3D->back()) >= 5.0
addGPSFactor(c, farFromStart) ==
  IF c.gq = <<>> THEN c
  ELSE IF cloudKeyPoses = <<>> THEN c
  ELSE IF ~farFromStart THEN c
  ELSE IF ~poseCovariance.x /\ ~poseCovariance.y THEN c
  ELSE gpsLoop(c, ScanTime(stepCount))

\* variant of addLoopFactor that forgets aLoopIsClosed = true
addLoopFactorUnflagged(c) ==
  IF c.liq = <<>> THEN c
  ELSE [c EXCEPT
         !.g = c.g \o [i \in 1..Len(c.liq) |->
                         Factor("Loop", <<c.liq[i][1], c.liq[i][2]>>, -1, -1)],
         !.liq = <<>>, !.lpq = <<>>, !.lnq = <<>>]

\* mapOptimization::addLoopFactor
addLoopFactor(c) ==
  IF c.liq = <<>> THEN c
  ELSE [c EXCEPT
         !.g = c.g \o [i \in 1..Len(c.liq) |->
                         Factor("Loop", <<c.liq[i][1], c.liq[i][2]>>, -1, -1)],
         !.liq = <<>>, !.lpq = <<>>, !.lnq = <<>>,
         !.loop = TRUE]

\* the key pairs of the BetweenFactors addLoopFactor has put in a graph
loopFactorKeys(graph) ==
  [i \in 1..Cardinality({k \in 1..Len(graph) : graph[k].type = "Loop"}) |->
     graph[SortedSeq({k \in 1..Len(graph) : graph[k].type = "Loop"})[i]].keys]

\* variant of propagateObject that takes one node for pose and velocity
propagateObjectOneNode(object, n) ==
  IF object.lostCount = 0
  THEN [object EXCEPT
          !.isFirst = FALSE, !.timestamp = stepCount,
          !.poseNodeIndex = n, !.velocityNodeIndex = n,
          !.previousVelocityNodeIndices = Append(@, object.velocityNodeIndex)]
  ELSE [object EXCEPT
          !.isFirst = FALSE, !.timestamp = stepCount,
          !.poseNodeIndex = NoNode, !.velocityNodeIndex = NoNode]

\* One iteration of the loop of propagateObjectPoses over a track that is kept
propagateObject(object, n) ==
  IF object.lostCount = 0
  THEN [object EXCEPT
          !.isFirst = FALSE, !.timestamp = stepCount,
          !.poseNodeIndex = n, !.velocityNodeIndex = n + 1,
          !.previousVelocityNodeIndices = Append(@, object.velocityNodeIndex)]
  ELSE [object EXCEPT
          !.isFirst = FALSE, !.timestamp = stepCount,
          !.poseNodeIndex = NoNode, !.velocityNodeIndex = NoNode]

\* variant of droppedByPropagation that keeps a lost track one step too long
droppedOneStepLate(object) == object.lostCount > trackingStepsForLostObject + 1

\* the track is dropped when it was lost for a long time
droppedByPropagation(object) == object.lostCount > trackingStepsForLostObject

RECURSIVE propagateLoop(_, _, _)
propagateLoop(c, order, next) ==
  IF order = <<>> THEN [c EXCEPT !.objs = Append(c.objs, next)]
  ELSE LET object == Last(c.objs)[Head(order)] IN
    IF droppedByPropagation(object) THEN propagateLoop(c, Tail(order), next)
    ELSE IF object.lostCount = 0
      THEN propagateLoop([c EXCEPT !.n = c.n + 2, !.ie = c.ie \cup {c.n, c.n + 1}],
                         Tail(order),
                         next @@ (Head(order) :> propagateObject(object, c.n)))
      ELSE propagateLoop(c, Tail(order),
                         next @@ (Head(order) :> propagateObject(object, c.n)))

\* mapOptimization::propagateObjectPoses
propagateObjectPoses(c) ==
  IF c.objs = <<>> THEN [c EXCEPT !.objs = <<EmptyFn>>]
  ELSE propagateLoop(c, SortedSeq(DOMAIN Last(c.objs)), EmptyFn)

\* ------------------------------------------------------- data association
\* What getDetectionIndexAndError returns for one track, as far as the code
\* reads it: (j, error < detectionMatchThreshold) against the matching profile,
\* (jTight, detectionError <= tightCouplingDetectionErrorThreshold) against the
\* tight-matching profile, (jDA, error < detectionMatchThreshold) against the
\* data-association profile.
AssocInput(found, j, jTight, spatial, daFound, jDA) ==
  [found |-> found, j |-> j, jTight |-> jTight, spatial |-> spatial,
   daFound |-> daFound, jDA |-> jDA]

\* variant of incrementedTrackScore without the cap
incrementedWithoutCap(score) == score + 1

\* if (object.trackScore <= numberOfPreLooseCouplingSteps) ++object.trackScore
incrementedTrackScore(score) ==
  IF score <= numberOfPreLooseCouplingSteps THEN score + 1 ELSE score

\* object.trackScore >= numberOfPreLooseCouplingSteps + 1
isCouplingCandidate(score) == score >= numberOfPreLooseCouplingSteps + 1

\* variant of passesTightCoupling that ignores the velocity test
passesSpatialTestOnly(spatial, temporal) == spatial

\* variant of passesTightCoupling that lets no track pass
passesNoTightCoupling(spatial, temporal) == FALSE

\* if (spatialConsistencyTest && temporalConsistencyTest)
passesTightCoupling(spatial, temporal) == spatial /\ temporal

\* variant of demotedTrackScore that takes one point only
demotedByOne(score) == score - 1

\* object.trackScore -= numberOfInterLooseCouplingSteps
demotedTrackScore(score) == score - numberOfInterLooseCouplingSteps

\* variant of matchingProfile that takes the loose profile at P + 1 only
matchingProfileAtCap(object) ==
  IF object.trackScore >= numberOfPreLooseCouplingSteps + 1 THEN "looseMatching"
  ELSE IF pathLen[object.objectIndex] <= numberOfEarlySteps THEN "earlyLooseMatching"
  ELSE "looseMatching"

\* the noise profile the track is matched against
matchingProfile(object) ==
  IF object.trackScore >= numberOfPreLooseCouplingSteps THEN "looseMatching"
  ELSE IF pathLen[object.objectIndex] <= numberOfEarlySteps THEN "earlyLooseMatching"
  ELSE "looseMatching"

\* The inputs of one track; a field the code does not read on the path
\* taken is fixed (0 / FALSE), so that each behaviour is enumerated once.
inputsOf(object, D) ==
  LET J == 0..(D - 1)
      tested == object.lostCount = 0
                /\ isCouplingCandidate(incrementedTrackScore(object.trackScore))
  IN {AssocInput(TRUE, j, jt, sp, FALSE, 0) :
        j \in J, jt \in (IF tested THEN J ELSE {0}),
        sp \in (IF tested THEN BOOLEAN ELSE {FALSE})}
     \cup {AssocInput(FALSE, 0, 0, FALSE, FALSE, 0)}
     \cup {AssocInput(FALSE, 0, 0, FALSE, TRUE, jd) : jd \in J}

RECURSIVE inputsOfEpoch(_, _, _)
inputsOfEpoch(epoch, S, D) ==
  IF S = {} THEN {EmptyFn}
  ELSE LET o == CHOOSE x \in S : TRUE
       IN {f @@ (o :> i) : f \in inputsOfEpoch(epoch, S \ {o}, D),
                            i \in inputsOf(epoch[o], D)}

\* variant of looselyCouple that adds the factor to the main graph
looselyCoupleInMainGraph(c, object, j, egoPoseKey) ==
  [c EXCEPT
     !.iel = c.iel \cup {object.poseNodeIndex, object.velocityNodeIndex},
     !.ie = c.ie \ {object.poseNodeIndex, object.velocityNodeIndex},
     !.g = Append(c.g, Factor("LooselyCoupledDetection",
                              <<egoPoseKey, object.poseNodeIndex>>,
                              object.objectIndex, j))]

\* the track moves from the main to the loosely coupled buffer and gets a
\* LooselyCoupledDetectionFactor with detection index j
looselyCouple(c, object, j, egoPoseKey) ==
  [c EXCEPT
     !.iel = c.iel \cup {object.poseNodeIndex, object.velocityNodeIndex},
     !.ie = c.ie \ {object.poseNodeIndex, object.velocityNodeIndex},
     !.gl = Append(c.gl, Factor("LooselyCoupledDetection",
                                <<egoPoseKey, object.poseNodeIndex>>,
                                object.objectIndex, j))]

\* the found branch for a track that is not lost
matchObject(c, oi, inp, egoPoseKey) ==
  LET e == Len(c.objs)
      object == c.objs[e][oi]
      score == incrementedTrackScore(object.trackScore)
      matched == [object EXCEPT !.lostCount = 0, !.trackScore = score,
                                !.detection = [stamp |-> detections.stamp, idx |-> inp.j]]
      temporal == velocityIsConsistent(object, numberOfVelocityConsistencySteps,
                                       isamCurrentEstimate,
                                       objectLinearVelocityConsistencyVarianceThreshold)
      d == [c EXCEPT !.ind = c.ind \cup {<<oi, inp.j>>}]
  IN IF isCouplingCandidate(score)
     THEN IF passesTightCoupling(inp.spatial, temporal)
          THEN [d EXCEPT
                  !.tight = TRUE,
                  !.objs[e][oi] = [matched EXCEPT !.isTightlyCoupled = TRUE],
                  !.g = Append(d.g, Factor("TightlyCoupledDetection",
                                           <<egoPoseKey, object.poseNodeIndex>>,
                                           oi, inp.jTight))]
          ELSE [looselyCouple(d, object, inp.jTight, egoPoseKey) EXCEPT
                  !.objs[e][oi] = [matched EXCEPT
                                     !.trackScore = demotedTrackScore(score),
                                     !.isTightlyCoupled = FALSE]]
     ELSE [looselyCouple(d, object, inp.j, egoPoseKey) EXCEPT
             !.objs[e][oi] = [matched EXCEPT !.isTightlyCoupled = FALSE]]

\* variant of lostTrackScore that keeps the score of a lost track
lostTrackScoreKept(score) == score

\* object.trackScore = 0.0 in the lost branch
lostTrackScore(score) == 0

\* variant of isLostObject that takes a track lost in one step for matched
isLostForSeveralSteps(object) == object.lostCount > 1

\* variant of isLostObject that takes no track for lost
isNeverLostObject(object) == FALSE

\* if (object.lostCount > 0)
isLostObject(object) == object.lostCount > 0

\* variant of retiredLostCount that leaves the count of the track as it was
lostCountKept(object) == object.lostCount

\* object.lostCount = std::numeric_limits<int>::max() of a track whose
\* tracking index was handed to a detection
retiredLostCount(object) == IntMax

\* one iteration of the association loop of addDetectionFactor
associateObject(c, oi, inp, egoPoseKey) ==
  LET e == Len(c.objs)
      object == c.objs[e][oi]
      d == [c EXCEPT !.log = c.log @@ (oi :>
              [profile |-> matchingProfile(object), input |-> inp,
               lostBefore |-> object.lostCount, scoreBefore |-> object.trackScore])]
  IN IF inp.found
     THEN IF isLostObject(object)
          THEN [d EXCEPT !.toi[inp.j] = object.objectIndexForTracking,
                         !.objs[e][oi].lostCount = retiredLostCount(object)]
          ELSE matchObject(d, oi, inp, egoPoseKey)
     ELSE IF inp.daFound
          THEN [d EXCEPT !.toi[inp.jDA] = object.objectIndexForTracking,
                         !.objs[e][oi].lostCount = retiredLostCount(object),
                         !.objs[e][oi].confidence = 0,
                         !.objs[e][oi].trackScore = lostTrackScore(object.trackScore)]
          ELSE [d EXCEPT !.objs[e][oi].lostCount = object.lostCount + 1,
                         !.objs[e][oi].confidence = 0,
                         !.objs[e][oi].trackScore = lostTrackScore(object.trackScore)]

RECURSIVE associateLoop(_, _, _, _)
associateLoop(c, order, inputs, egoPoseKey) ==
  IF order = <<>> THEN c
  ELSE associateLoop(associateObject(c, Head(order), inputs[Head(order)], egoPoseKey),
                     Tail(order), inputs, egoPoseKey)

\* variant of inheritsTrackingIndex: every birth takes a new tracking index
neverInheritsTrackingIndex(c, idx) == FALSE

\* if (trackingObjectIndices[idx] < 0) ... else: a retired track has left
\* its tracking index for detection idx
inheritsTrackingIndex(c, idx) == c.toi[idx] >= 0

\* variant of nextNumberOfRegisteredObjects that does not count the birth
numberOfRegisteredObjectsKept(n) == n

\* object.objectIndex = numberOfRegisteredObjects++: the counter afterwards
nextNumberOfRegisteredObjects(n) == n + 1

\* the birth of a track from detection idx
registerObject(c, idx, egoPoseKey) ==
  LET e == Len(c.objs)
      inherited == inheritsTrackingIndex(c, idx)
      object == [ObjectState EXCEPT
                   !.detection = [stamp |-> detections.stamp, idx |-> idx],
                   !.velocity = 0,
                   !.poseNodeIndex = c.n,
                   !.velocityNodeIndex = c.n + 1,
                   !.objectIndex = c.nro,
                   !.isFirst = TRUE,
                   !.timestamp = stepCount,
                   !.objectIndexForTracking =
                      IF inherited THEN c.toi[idx] ELSE c.nto]
  IN [c EXCEPT
        !.n = c.n + 2,
        !.nro = nextNumberOfRegisteredObjects(c.nro),
        !.nto = IF inherited THEN c.nto ELSE c.nto + 1,
        !.objs[e] = [k \in DOMAIN c.objs[e] \cup {c.nro} |->
                       IF k = c.nro THEN object ELSE c.objs[e][k]],
        !.iel = c.iel \cup {c.n, c.n + 1},
        !.gl = c.gl \o <<Factor("LooselyCoupledDetection", <<egoPoseKey, c.n>>,
                                c.nro, idx),
                         Factor("PriorVelocity", <<c.n + 1>>, c.nro, -1)>>]

\* variant of detectionIsAssociated that finds every column empty
detectionIsNeverAssociated(c, idx) == FALSE

\* indicator.col(idx).sum() != 0
detectionIsAssociated(c, idx) == \E p \in c.ind : p[2] = idx

RECURSIVE registerLoop(_, _, _, _)
registerLoop(c, idx, D, egoPoseKey) ==
  IF idx >= D THEN c
  ELSE IF detectionIsAssociated(c, idx)
       THEN registerLoop(c, idx + 1, D, egoPoseKey)
       ELSE registerLoop(registerObject(c, idx, egoPoseKey), idx + 1, D, egoPoseKey)

\* every track of the epoch is lost when there is no detection
loseAll(epoch) ==
  [oi \in DOMAIN epoch |->
     [epoch[oi] EXCEPT !.lostCount = @ + 1, !.confidence = 0]]

\* mapOptimization::addDetectionFactor; D = detections->boxes.size()
addDetectionFactor(c0, inputs) ==
  LET c == [c0 EXCEPT !.tight = FALSE]
      D == detections.n
  IN IF D = 0 /\ c.objs = <<>> THEN c
     ELSE IF D = 0
     THEN [c EXCEPT !.objs[Len(c.objs)] = loseAll(Last(c.objs))]
     ELSE LET egoPoseKey == Last(c.kpi)
              start == [c EXCEPT !.ind = {}, !.toi = [j \in 0..(D - 1) |-> -1]]
              assoc == associateLoop(start, SortedSeq(DOMAIN Last(c.objs)),
                                     inputs, egoPoseKey)
          IN registerLoop(assoc, 0, D, egoPoseKey)

\* --------------------------------------------------------- motion factors
\* auto previousObject = objects[objects.size() - 2][objectIndex]: the map's
\* operator[] default-constructs a missing entry
previousObjectOf(c, oi) ==
  LET prev == c.objs[Len(c.objs) - 1]
  IN IF oi \in DOMAIN prev THEN prev[oi] ELSE ObjectState

withPreviousObject(c, oi) ==
  LET e == Len(c.objs) - 1
  IN IF oi \in DOMAIN c.objs[e] THEN c
     ELSE [c EXCEPT !.objs[e] = c.objs[e] @@ (oi :> ObjectState)]

\* variant of movingObjects that does not skip the lost tracks
movingObjectsWithLost(c) ==
  IF Len(c.objs) < 2 THEN <<>>
  ELSE SortedSeq({oi \in DOMAIN Last(c.objs) : ~Last(c.objs)[oi].isFirst})

\* the tracks of the newest epoch that get motion factors
movingObjects(c) ==
  IF Len(c.objs) < 2 THEN <<>>
  ELSE SortedSeq({oi \in DOMAIN Last(c.objs) :
                    /\ ~Last(c.objs)[oi].isFirst
                    /\ ~(Last(c.objs)[oi].lostCount > 0)})

RECURSIVE motionLoop(_, _, _)
motionLoop(c, order, type) ==
  IF order = <<>> THEN c
  ELSE LET oi == Head(order)
           cur == Last(c.objs)[oi]
           prv == previousObjectOf(c, oi)
           f == IF type = "ConstantVelocity"
                THEN Factor(type, <<prv.velocityNodeIndex, cur.velocityNodeIndex>>, oi, -1)
                ELSE Factor(type, <<prv.poseNodeIndex, prv.velocityNodeIndex,
                                    cur.poseNodeIndex>>, oi, -1)
           d == withPreviousObject(c, oi)
       IN motionLoop(IF cur.isTightlyCoupled
                     THEN [d EXCEPT !.g = Append(d.g, f)]
                     ELSE [d EXCEPT !.gl = Append(d.gl, f)],
                     Tail(order), type)

\* mapOptimization::addConstantVelocityFactor
addConstantVelocityFactor(c) == motionLoop(c, movingObjects(c), "ConstantVelocity")

\* mapOptimization::addStablePoseFactor
addStablePoseFactor(c) == motionLoop(c, movingObjects(c), "StablePose")

\* ------------------------------------------------------------------ solver
\* variant of mainInitialEstimate that leaves the ego key of a non-keyframe
\* step among the new values
mainInitialEstimateWithEgoKey(c, saved) == c.ie

\* the values handed to the first update: the ego key of a non-keyframe step
\* is taken out again
mainInitialEstimate(c, saved) == IF saved THEN c.ie ELSE c.ie \ {Last(c.kpi)}

\* the number of additional isam->update() calls when aLoopIsClosed
extraSweeps == 5

\* a call isam->update(graph, values) on a solver that knows the keys `known`
UpdateCall(graph, values, known) ==
  [kind |-> "update", graph |-> graph, values |-> values, known |-> known]

\* a call isam->update()
SweepCall(known) == [kind |-> "sweep", graph |-> <<>>, values |-> {}, known |-> known]

\* variant of looseIsSubmitted that tests the main graph
looseIsSubmittedIfMainGraph(c) == c.g # <<>>

\* the loosely coupled graph is handed to the solver when it is not empty
looseIsSubmitted(c) == c.gl # <<>>

\* the calls of one step, in order
solverCallsOf(c, saved) ==
  LET ie == mainInitialEstimate(c, saved)
      k1 == isamKeys \cup ie
      k2 == k1 \cup c.iel
  IN <<UpdateCall(c.g, ie, isamKeys), SweepCall(k1)>>
     \o (IF c.loop THEN [i \in 1..extraSweeps |-> SweepCall(k1)] ELSE <<>>)
     \o (IF looseIsSubmitted(c)
         THEN <<UpdateCall(c.gl, c.iel, k1), SweepCall(k2)>> ELSE <<>>)

\* the keys of the solver after the calls
keysAfter(calls) ==
  isamKeys \cup UNION {calls[i].values : i \in 1..Len(calls)}

\* the velocity nodes of all epochs
velocityNodes(objs) ==
  UNION {{objs[e][oi].velocityNodeIndex : oi \in DOMAIN objs[e]} : e \in 1..Len(objs)}

\* The estimates isam->calculateEstimate() can return.  The velocity node of
\* a new track has the prior factor only and is estimated as the prior's
\* mean, 0; the new velocity node of an older track that is not lost gets any
\* value of VelValues and keeps it; every other node is abstracted to 0.
estimatesAfter(keys, objs) ==
  LET epoch == Last(objs)
      fresh == ({epoch[oi].velocityNodeIndex :
                   oi \in {o \in DOMAIN epoch :
                             epoch[o].lostCount = 0 /\ ~epoch[o].isFirst}} \cap keys)
               \ DOMAIN isamCurrentEstimate
  IN {[k \in keys |-> IF k \in fresh THEN v[k]
                      ELSE IF k \in DOMAIN isamCurrentEstimate
                      THEN isamCurrentEstimate[k] ELSE 0] :
        v \in [fresh -> VelValues]}

\* the read-back of the tracks that are not lost
readBackObjects(epoch, estimate) ==
  [oi \in DOMAIN epoch |->
     IF epoch[oi].lostCount > 0 THEN epoch[oi]
     ELSE [epoch[oi] EXCEPT !.velocity = At(estimate, epoch[oi].velocityNodeIndex)]]

\* ---------------------------------------------------------- order of a step
Op(op, arg) == [op |-> op, arg |-> arg]

\* gtSAMgraph.add / initialEstimate.insert of the step, up to the erase of
\* the ego key on a step without a keyframe
additionsOf(c, saved) ==
  [i \in 1..Len(c.g) |-> Op("add", c.g[i].type)]
  \o [i \in 1..Len(c.gl) |-> Op("add", c.gl[i].type)]
  \o [i \in 1..Cardinality(c.ie \cup c.iel) |->
        Op("insert", SortedSeq(c.ie \cup c.iel)[i])]
  \o (IF saved THEN <<>> ELSE <<Op("erase", Last(c.kpi))>>)

\* isam->update(...) and isam->update() in the order of the calls
updatesOf(calls) == [i \in 1..Len(calls) |-> Op(calls[i].kind, i)]

\* calculateEstimate, the keyframe poses, marginalCovariance, the keyframe
\* clouds and the path, then the tracks
readBackOf(c, saved) ==
  <<Op("calculateEstimate", 0)>>
  \o (IF saved
      THEN <<Op("saveKeyPose", Last(c.kpi)), Op("marginalCovariance", Last(c.kpi)),
             Op("saveKeyFrameCloud", Last(c.kpi)), Op("updatePath", Last(c.kpi))>>
      ELSE <<>>)
  \o [i \in 1..Cardinality({o \in DOMAIN Last(c.objs) : Last(c.objs)[o].lostCount = 0}) |->
        Op("readBackObject",
           SortedSeq({o \in DOMAIN Last(c.objs) : Last(c.objs)[o].lostCount = 0})[i])]

\* correctPoses, publishOdometry, publishFrames
publicationsOf(corrected) ==
  (IF corrected THEN <<Op("correctPoses", 0)>> ELSE <<>>)
  \o <<Op("publishOdometry", 0), Op("publishFrames", 0)>>

\* variant of stepTraceOf that publishes before the estimate is read back
stepTracePublishedEarly(c, calls, saved, corrected) ==
  additionsOf(c, saved) \o updatesOf(calls) \o publicationsOf(corrected)
  \o readBackOf(c, saved)

\* saveKeyFramesAndFactor, correctPoses, publishOdometry, publishFrames
stepTraceOf(c, calls, saved, corrected) ==
  additionsOf(c, saved) \o updatesOf(calls) \o readBackOf(c, saved)
  \o publicationsOf(corrected)

\* ------------------------------------------------------------ scan matching
\* transformTobeMapped: roll, pitch, yaw, x, y, z in integer units
Transform(roll, pitch, yaw, x, y, z) == <<roll, pitch, yaw, x, y, z>>

\* if (laserCloudSelNum < 50) return false;
minCorrespondences == 50
\* for (int iterCount = 0; iterCount < 30; iterCount++)
maxIterCount == 30
\* std::abs(cloudInfo.imuPitchInit) < 1.4, in the angle unit
imuPitchLimit == 14

\* A scan: the transform updateInitialGuess leaves, whether the downsampled
\* features exceed edgeFeatureMinValidNum and surfFeatureMinValidNum, the
\* number of correspondences cornerOptimization and surfOptimization select
\* at the guess and away from it, the solution cv::solve finds, and the IMU
\* fields of cloudInfo.
Scan(guess, enough, selNum, selNumMoved, matX, imuAvailable, imuRollInit, imuPitchInit) ==
  [guess |-> guess, enough |-> enough, selNum |-> selNum,
   selNumMoved |-> selNumMoved, matX |-> matX, imuAvailable |-> imuAvailable,
   imuRollInit |-> imuRollInit, imuPitchInit |-> imuPitchInit]
NoScan == Scan(Transform(0, 0, 0, 0, 0, 0), FALSE, 0, 0, Transform(0, 0, 0, 0, 0, 0),
               FALSE, 0, 0)
Scans ==
  {Scan(Transform(roll, 0, 0, 0, 0, z), enough, selNum, selNumMoved,
        Transform(d, 0, 0, d, 0, 0), imuAvailable, imuRollInit, imuPitchInit) :
     roll \in {0, 6}, z \in {0, 6}, enough \in BOOLEAN, selNum \in {49, 50},
     selNumMoved \in {49, 50}, d \in {0, 2}, imuAvailable \in BOOLEAN,
     imuRollInit \in {0, 2}, imuPitchInit \in {0, 14}}

\* laserCloudOri->size() after combineOptimizationCoeffs at a transform
laserCloudSelNum(transform, scan) ==
  IF transform = scan.guess THEN scan.selNum ELSE scan.selNumMoved

\* deltaR < 0.05 && deltaT < 0.05: every component of matX is below one unit
lmConverged(matX) == \A i \in 1..6 : abs(matX[i]) < 1

\* The sets of directions whose eigenvalue of matAtA is below eignThre: none,
\* or the x translation.
DegenerateDirections == {{}, {4}}

\* what cv::eigen can find for a scan; it is called at iteration 0 with
\* enough correspondences only
eigenDirections(scan) ==
  IF cloudKeyPoses # <<>> /\ scan.enough /\ scan.selNum >= minCorrespondences
  THEN DegenerateDirections ELSE {{}}

\* transformTobeMapped with the members isDegenerate and matP; matP is the
\* set of directions the projection keeps
LmState(transform) ==
  [transform |-> transform, isDegenerate |-> isDegenerate, matP |-> matP,
   computedAt |-> degenerateLog.computedAt, applied |-> {}]

\* variant of computesDegeneracy that never runs the eigen analysis
computesDegeneracyNever(iterCount) == FALSE

\* if (iterCount == 0)
computesDegeneracy(iterCount) == iterCount = 0

\* matX = matP * matX2
projected(keep, matX) == [i \in 1..6 |-> IF i \in keep THEN matX[i] ELSE 0]

\* LMOptimization after the test of laserCloudSelNum: the state and the
\* update it adds to transformTobeMapped
lmUpdate(s, iterCount, scan, dirs) ==
  LET s1 == IF computesDegeneracy(iterCount)
            THEN [s EXCEPT !.isDegenerate = dirs # {}, !.matP = (1..6) \ dirs,
                           !.computedAt = stepCount]
            ELSE s
      matX == IF s1.isDegenerate THEN projected(s1.matP, scan.matX) ELSE scan.matX
  IN [state |-> [s1 EXCEPT
                   !.transform = [i \in 1..6 |-> s1.transform[i] + matX[i]],
                   !.applied = s1.applied \cup
                     {[iterCount |-> iterCount, isDegenerate |-> s1.isDegenerate,
                       matP |-> s1.matP, computedAt |-> s1.computedAt]}],
      matX |-> matX]

\* the loop of scan2MapOptimization over LMOptimization(iterCount)
RECURSIVE lmLoop(_, _, _, _)
lmLoop(s, iterCount, scan, dirs) ==
  IF iterCount >= maxIterCount THEN s
  ELSE IF laserCloudSelNum(s.transform, scan) < minCorrespondences
  THEN lmLoop(s, iterCount + 1, scan, dirs)
  ELSE LET u == lmUpdate(s, iterCount, scan, dirs)
       IN IF lmConverged(u.matX) THEN u.state
          ELSE lmLoop(u.state, iterCount + 1, scan, dirs)

\* mapOptimization::constraintTransformation
constraintTransformation(value, limit) ==
  IF value < 0 - limit THEN 0 - limit
  ELSE IF value > limit THEN limit
  ELSE value

\* transformQuaternion.slerp(imuQuaternion, imuWeight) of two rotations about
\* one axis, as the angle getRPY reads back
slerpAngle(angle, imuAngle) ==
  angle + ((imuAngle - angle) * imuRPYWeightPercent) \div 100

\* mapOptimization::transformUpdate
transformUpdate(transform, scan) ==
  LET fused == IF scan.imuAvailable /\ abs(scan.imuPitchInit) < imuPitchLimit
               THEN [transform EXCEPT ![1] = slerpAngle(transform[1], scan.imuRollInit),
                                      ![2] = slerpAngle(transform[2], scan.imuPitchInit)]
               ELSE transform
  IN [fused EXCEPT ![1] = constraintTransformation(fused[1], rotation_tollerance),
                   ![2] = constraintTransformation(fused[2], rotation_tollerance),
                   ![6] = constraintTransformation(fused[6], z_tollerance)]

\* mapOptimization::scan2MapOptimization
scan2MapOptimization(s, scan, dirs) ==
  IF cloudKeyPoses = <<>> THEN s
  ELSE IF scan.enough
  THEN LET matched == lmLoop(s, 0, scan, dirs)
       IN [matched EXCEPT !.transform = transformUpdate(matched.transform, scan)]
  ELSE s

\* ------------------------------------------------------------ main handler
\* laserCloudInfoHandler up to the launch of the detection task: the lock is
\* taken, the interval has elapsed, std::thread t(getDetections) starts
laserCloudInfoHandlerLaunch(maxSteps) ==
  /\ pc = "idle"
  /\ mtxOwner = "none"
  /\ stepCount < maxSteps
  /\ pc' = "matching"
  /\ mtxOwner' = "main"
  /\ stepCount' = stepCount + 1
  /\ detPc' = "reset"
  /\ detLaunched' = detLaunched + 1
  /\ UNCHANGED <<cfgVars, requiredSaveFrame, detections, detectionIsActive, graphVars,
                 solverVars, pathLen, storeVars, loopQueueVars, loopVars, vizPc, gpsVars,
                 loopInfoVars, loopLogVars>>

\* getDetections: detectionIsActive = false
getDetectionsReset ==
  /\ detPc = "reset"
  /\ detectionIsActive' = FALSE
  /\ detPc' = "call"
  /\ UNCHANGED <<cfgVars, mainVars, detections, detLaunched, graphVars, solverVars,
                 pathLen, storeVars, loopQueueVars, loopVars, vizPc, gpsVars,
                 loopInfoVars, loopLogVars>>

\* getDetections: the service call; on failure detections is left as it was
getDetectionsCall(maxBoxes) ==
  /\ detPc = "call"
  /\ \E ok \in BOOLEAN :
       IF ok
       THEN \E n \in 0..maxBoxes :
              /\ detections' = [n |-> n, stamp |-> stepCount]
              /\ detectionIsActive' = TRUE
       ELSE UNCHANGED <<detections, detectionIsActive>>
  /\ detPc' = "done"
  /\ UNCHANGED <<cfgVars, mainVars, detLaunched, graphVars, solverVars,
                 pathLen, storeVars, loopQueueVars, loopVars, vizPc, gpsVars,
                 loopInfoVars, loopLogVars>>

\* variant of detectionsJoined that does not wait for the task
detectionsNotAwaited == TRUE

\* t.join() returns when the detection task is over
detectionsJoined == detPc = "done"

\* extractSurroundingKeyFrames: the sub-map cache takes the newest keyframe,
\* which is always within the search radius
extractSurroundingKeyFrames ==
  IF cloudKeyPoses = <<>> THEN laserCloudMapContainer
  ELSE laserCloudMapContainer \cup {Len(cloudKeyPoses) - 1}

\* isam->marginalCovariance(keyPoseIndices.back()): whether the x and the y
\* variance reach poseCovThreshold
LowCovariance == [x |-> FALSE, y |-> FALSE]
PoseCovariances == {LowCovariance, [x |-> TRUE, y |-> FALSE]}

\* pcl::getTranslationAndEulerAngles(transBetween, x, y, z, roll, pitch, yaw)
\* in integer units; NoMotion stands for the first frame, where saveFrame
\* returns before it computes the motion
Motion(x, y, z, roll, pitch, yaw) ==
  [x |-> x, y |-> y, z |-> z, roll |-> roll, pitch |-> pitch, yaw |-> yaw]
NoMotion == [x |-> -1, y |-> -1, z |-> -1, roll |-> 0, pitch |-> 0, yaw |-> 0]
Still == Motion(0, 0, 0, 0, 0, 0)
Moved == Motion(surroundingkeyframeAddingDistThreshold, 0, 0, 0, 0, 0)
Motions ==
  LET T == 0..surroundingkeyframeAddingDistThreshold
      A == (0 - surroundingkeyframeAddingAngleThreshold - 1)
             ..(surroundingkeyframeAddingAngleThreshold + 1)
  IN {Motion(x, y, z, r, p, w) : x \in T, y \in T, z \in T, r \in A, p \in A, w \in A}


\* sqrt(x * x + y * y + z * z) < limit, for a limit that is not negative
distanceIsBelow(motion, limit) ==
  motion.x * motion.x + motion.y * motion.y + motion.z * motion.z < limit * limit

\* variant of saveFrame that keeps a frame at the thresholds out
saveFrameAboveThresholds(motion) ==
  IF cloudKeyPoses = <<>> THEN TRUE
  ELSE ~(/\ abs(motion.roll) <= surroundingkeyframeAddingAngleThreshold
         /\ abs(motion.pitch) <= surroundingkeyframeAddingAngleThreshold
         /\ abs(motion.yaw) <= surroundingkeyframeAddingAngleThreshold
         /\ distanceIsBelow(motion, surroundingkeyframeAddingDistThreshold + 1))

\* saveFrame(): the first frame is always a keyframe; later the frame is
\* not saved when all three angles and the distance are below the thresholds
saveFrame(motion) ==
  IF cloudKeyPoses = <<>> THEN TRUE
  ELSE ~(/\ abs(motion.roll) < surroundingkeyframeAddingAngleThreshold
         /\ abs(motion.pitch) < surroundingkeyframeAddingAngleThreshold
         /\ abs(motion.yaw) < surroundingkeyframeAddingAngleThreshold
         /\ distanceIsBelow(motion, surroundingkeyframeAddingDistThreshold))

\* variant of egoFactors that adds the ego factors on every step
egoFactorsOnEveryStep(saved, farFromStart) ==
  addLoopFactor(addGPSFactor(addOdomFactor(Context), farFromStart))

\* the factors and initial values of the ego pose
egoFactors(saved, farFromStart) ==
  IF saved THEN addLoopFactor(addGPSFactor(addOdomFactor(Context), farFromStart))
  ELSE [Context EXCEPT !.ie = {Last(keyPoseIndices)}]

\* the factors of the tracker on top of the ego factors
objectFactors(c, inputs) ==
  addStablePoseFactor(addConstantVelocityFactor(addDetectionFactor(c, inputs)))

\* the keyframe poses after saveKeyFramesAndFactor
savedKeyPoses(saved) ==
  IF saved THEN Append(cloudKeyPoses, stepCount) ELSE cloudKeyPoses

\* updatePath(thisPose6D) of a keyframe step
updatedPath(path, saved) == IF saved THEN Append(path, stepCount) ELSE path

\* variant of correctedPath that does not clear the path
correctedPathNotCleared(path, kpi) == path \o [i \in 1..Len(kpi) |-> stepCount]

\* correctPoses: globalPath.poses.clear(), then updatePath for every index
\* of keyPoseIndices
correctedPath(path, kpi) == [i \in 1..Len(kpi) |-> stepCount]

\* variant of posesAreCorrected that looks at aLoopIsClosed only
posesAreCorrectedOnLoopOnly(c, saved) ==
  savedKeyPoses(saved) # <<>> /\ c.loop

\* correctPoses rewrites the poses when a loop was closed or an object is
\* tightly coupled
posesAreCorrected(c, saved) ==
  savedKeyPoses(saved) # <<>> /\ (c.loop \/ c.tight)

\* publishFrames: the path of a track grows when detections are active and
\* the track is not lost
publishFrames(paths, epoch, keyPoses) ==
  IF keyPoses = <<>> \/ ~detectionIsActive THEN paths
  ELSE [oi \in DOMAIN paths |->
          IF oi \in DOMAIN epoch /\ epoch[oi].lostCount = 0
          THEN paths[oi] + 1 ELSE paths[oi]]

\* the values pointDistance(cloudKeyPoses3D->front(), cloudKeyPoses3D->back())
\* >= 5.0 can have: front and back are the same point with one key pose
distancesOf(distances) ==
  IF Len(cloudKeyPoses) <= 1 THEN {FALSE} ELSE distances

\* laserCloudInfoHandler from scan matching to the release of the lock:
\* updateInitialGuess .. scan2MapOptimization, t.join(),
\* saveKeyFramesAndFactor, correctPoses, publishOdometry, publishFrames.
\* covariances and distances are the values marginalCovariance and
\* pointDistance can return, maxObjects caps numberOfRegisteredObjects,
\* motions are the motions since the last keyframe, scans the initial
\* guesses with what scan matching finds for them.
laserCloudInfoHandlerJoin(covariances, distances, maxObjects, motions, scans) ==
  /\ pc = "matching"
  /\ detectionsJoined
  /\ \E motion \in motions, farFromStart \in distancesOf(distances), scan \in scans :
     \E dirs \in eigenDirections(scan) :
     \E matched \in {scan2MapOptimization(LmState(scan.guess), scan, dirs)} :
     \E saved \in {saveFrame(motion)} :
     \E c2 \in {propagateObjectPoses(egoFactors(saved, farFromStart))} :
     \E inputs \in inputsOfEpoch(Last(c2.objs), DOMAIN Last(c2.objs), detections.n) :
     \E c \in {objectFactors(c2, inputs)} :
     \E calls \in {solverCallsOf(c, saved)} :
     \E keys \in {keysAfter(calls)} :
     \E estimate \in estimatesAfter(keys, c.objs) :
     \E cov \in (IF saved THEN covariances ELSE {poseCovariance}) :
     \E epoch \in {readBackObjects(Last(c.objs), estimate)} :
     \E corrected \in {posesAreCorrected(c, saved)} :
       /\ c.nro <= maxObjects
       /\ isamCurrentEstimate' = estimate
       /\ objects' = [c.objs EXCEPT ![Len(c.objs)] = epoch]
       /\ requiredSaveFrame' = saved
       /\ transBetween' = IF cloudKeyPoses = <<>> THEN NoMotion ELSE motion
       /\ keyPosesFarApart' = farFromStart
       /\ numberOfNodes' = c.n
       /\ keyPoseIndices' = c.kpi
       /\ numberOfRegisteredObjects' = c.nro
       /\ numberOfTrackingObjects' = c.nto
       /\ anyObjectIsTightlyCoupled' = c.tight
       /\ isamKeys' = keys
       /\ prevEstimate' = isamCurrentEstimate
       /\ solverCalls' = calls
       /\ assocLog' = c.log
       /\ birthLog' = [oi \in {o \in DOMAIN Last(c.objs) : Last(c.objs)[o].isFirst} |->
                         Last(c.objs)[oi]]
       /\ stepTrace' = stepTraceOf(c, calls, saved, corrected)
       /\ scanLog' = [scan |-> scan, before |-> scan.guess,
                      after |-> matched.transform]
       /\ isDegenerate' = matched.isDegenerate
       /\ matP' = matched.matP
       /\ degenerateLog' = [computedAt |-> matched.computedAt, dirs |-> dirs,
                            applied |-> matched.applied]
       /\ loopIndexQueue' = c.liq
       /\ loopPoseQueue' = c.lpq
       /\ loopNoiseQueue' = c.lnq
       /\ loopIndexAdded' = loopIndexAdded \o loopFactorKeys(c.g)
       /\ gpsQueue' = c.gq
       /\ lastGPSPoint' = c.lastGPS
       /\ poseCovariance' = cov
       /\ keyFrameClouds' = IF saved THEN Append(keyFrameClouds, stepCount)
                            ELSE keyFrameClouds
       /\ surfCloudKeyFrames' = IF saved THEN Append(surfCloudKeyFrames, stepCount)
                                ELSE surfCloudKeyFrames
       /\ cloudKeyPoses' =
            IF corrected
            THEN [i \in 1..Len(savedKeyPoses(saved)) |->
                    IF i <= Len(c.kpi) THEN stepCount ELSE savedKeyPoses(saved)[i]]
            ELSE savedKeyPoses(saved)
       /\ cloudKeyPoses6D' =
            LET saved6D == IF saved THEN Append(cloudKeyPoses6D, stepCount)
                           ELSE cloudKeyPoses6D
            IN IF corrected
               THEN [i \in 1..Len(saved6D) |->
                       IF i <= Len(c.kpi) THEN stepCount ELSE saved6D[i]]
               ELSE saved6D
       /\ globalPath' =
            IF corrected THEN correctedPath(updatedPath(globalPath, saved), c.kpi)
            ELSE updatedPath(globalPath, saved)
       /\ laserCloudMapContainer' =
            IF corrected THEN {} ELSE extractSurroundingKeyFrames
       /\ aLoopIsClosed' = IF corrected THEN FALSE ELSE c.loop
       /\ pathLen' = publishFrames(
                       [oi \in 0..(c.nro - 1) |->
                          IF oi \in DOMAIN pathLen THEN pathLen[oi] ELSE 0],
                       epoch, savedKeyPoses(saved))
  /\ pc' = "idle"
  /\ mtxOwner' = "none"
  /\ detPc' = "idle"
  /\ UNCHANGED <<cfgVars, stepCount, detections, detectionIsActive, detLaunched,
                 loopVars, vizPc, gpsReceived, loopInfoVars, loopIndexEnqueued>>

\* --------------------------------------------------------------------- GPS
\* The GPS messages: position in units of 5 m (0 is the origin, which the
\* code takes for an uninitialised fix), age in units of 0.2 s before the
\* next scan (2 is too old for that scan), noisy when the covariance of the
\* fix exceeds gpsCovThreshold.
GpsMessages ==
  {[age |-> 1, noisy |-> FALSE, pos |-> 1], [age |-> 2, noisy |-> FALSE, pos |-> 1],
   [age |-> 1, noisy |-> TRUE, pos |-> 1], [age |-> 1, noisy |-> FALSE, pos |-> 0]}

\* the messages with a fix 10 m from the origin as well
GpsMessagesFar == GpsMessages \cup {[age |-> 1, noisy |-> FALSE, pos |-> 2]}

\* gpsHandler: gpsQueue.push_back(*gpsMsg); a callback of the spinner thread,
\* so it runs between two calls of laserCloudInfoHandler
gpsHandler(messages, maxMessages, maxSteps) ==
  /\ pc = "idle"
  /\ gpsReceived < maxMessages
  /\ stepCount < maxSteps
  /\ \E m \in messages :
       gpsQueue' = Append(gpsQueue, [stamp |-> ScanTime(stepCount + 1) - m.age,
                                     noisy |-> m.noisy, pos |-> m.pos])
  /\ gpsReceived' = gpsReceived + 1
  /\ UNCHANGED <<cfgVars, mainVars, detVars, graphVars, solverVars, pathLen,
                 storeVars, loopQueueVars, loopVars, vizPc, lastGPSPoint,
                 loopInfoVars, loopLogVars>>

\* ------------------------------------------------------------ loop closure
\* The loop-info messages: data[0] is the time of the current keyframe and
\* data[1] the time of the previous one, in the units of ScanTime.
LoopInfoTimes == {0, 2, 4, 6}
LoopInfoMessages ==
  {<<t>> : t \in LoopInfoTimes}
  \cup {<<t, u>> : t \in LoopInfoTimes, u \in LoopInfoTimes}
  \cup {<<t, u, 0>> : t \in LoopInfoTimes, u \in LoopInfoTimes}
FewLoopInfoMessages == {<<4>>, <<4, 0>>, <<0, 4>>, <<4, 0, 0>>}

\* the size of loopInfoVec that the handler does not let it exceed
loopInfoCapacity == 5

\* variant of loopInfoIsAccepted that takes longer payloads too
loopInfoHasAtLeastTwo(loopMsg) == Len(loopMsg) >= 2

\* if (loopMsg->data.size() != 2) return;
loopInfoIsAccepted(loopMsg) == Len(loopMsg) = 2

\* while (loopInfoVec.size() > 5) loopInfoVec.pop_front();
RECURSIVE popFrontAbove(_, _)
popFrontAbove(queue, size) ==
  IF Len(queue) > size THEN popFrontAbove(Tail(queue), size) ELSE queue

\* loopInfoHandler: a callback of the spinner thread, so it runs between two
\* calls of laserCloudInfoHandler; it holds mtxLoopInfo throughout
loopInfoHandler(messages, maxMessages) ==
  /\ pc = "idle"
  /\ Len(loopInfoLog) < maxMessages
  /\ \E loopMsg \in messages :
       /\ loopInfoVec' =
            IF loopInfoIsAccepted(loopMsg)
            THEN popFrontAbove(Append(loopInfoVec, loopMsg), loopInfoCapacity)
            ELSE loopInfoVec
       /\ loopInfoLog' = IF Len(loopMsg) = 2 THEN Append(loopInfoLog, loopMsg)
                         ELSE loopInfoLog
  /\ UNCHANGED <<cfgVars, mainVars, detVars, graphVars, solverVars, pathLen,
                 storeVars, loopQueueVars, loopVars, vizPc, gpsVars,
                 loopInfoTaken, loopLogVars>>

\* the time field of key pose i, written when the pose is pushed and left
\* alone by correctPoses
keyPoseTime(i) == ScanTime(keyFrameClouds[i + 1])

\* for (i = cloudSize - 1; i >= 0; --i) if (time >= loopTimeCur) loopKeyCur = i
RECURSIVE latestKey(_, _, _)
latestKey(i, loopTimeCur, key) ==
  IF i < 0 THEN key
  ELSE IF keyPoseTime(i) >= loopTimeCur THEN latestKey(i - 1, loopTimeCur, i)
  ELSE key

\* for (i = 0; i < cloudSize; ++i) if (time <= loopTimePre) loopKeyPre = i
RECURSIVE previousKey(_, _, _, _)
previousKey(i, cloudSize, loopTimePre, key) ==
  IF i >= cloudSize THEN key
  ELSE IF keyPoseTime(i) <= loopTimePre
  THEN previousKey(i + 1, cloudSize, loopTimePre, i)
  ELSE key

\* variant of loopIsKnown that never finds the key
loopIsNeverKnown(container, key) == FALSE

\* loopIndexContainer.find(loopKeyCur) != loopIndexContainer.end()
loopIsKnown(container, key) == key \in DOMAIN container

\* the keys detectLoopClosureExternal returns for the front message, or <<>>
\* when it returns false
externalKeys(loopMsg, cloudSize) ==
  IF abs(loopMsg[1] - loopMsg[2]) < historyKeyframeSearchTimeDiff THEN <<>>
  ELSE IF cloudSize < 2 THEN <<>>
  ELSE LET cur == latestKey(cloudSize - 1, loopMsg[1], cloudSize - 1)
           pre == previousKey(0, cloudSize, loopMsg[2], 0)
       IN IF cur = pre THEN <<>>
          ELSE IF loopIsKnown(loopIndexContainer, cur) THEN <<>>
          ELSE <<cur, pre>>

\* detectLoopClosureExternal with a message in loopInfoVec: the front is
\* taken under mtxLoopInfo; when it returns false detectLoopClosureDistance
\* is called
detectLoopClosureExternal ==
  /\ loopPc = "detect"
  /\ loopInfoVec # <<>>
  /\ loopInfoVec' = Tail(loopInfoVec)
  /\ loopInfoTaken' = loopInfoTaken + 1
  /\ \E keys \in {externalKeys(Head(loopInfoVec), Len(copyKeyPoses))} :
       IF keys = <<>>
       THEN loopPc' = "distance" /\ UNCHANGED <<loopKeyCur, loopKeyPre>>
       ELSE loopPc' = "near" /\ loopKeyCur' = keys[1] /\ loopKeyPre' = keys[2]
  /\ UNCHANGED <<cfgVars, mainVars, detVars, graphVars, solverVars, pathLen,
                 storeVars, loopQueueVars, loopIndexContainer, copyKeyPoses,
                 vizPc, gpsVars, loopInfoLog, loopLogVars>>

\* loopClosureThread: rate.sleep() is over, performLoopClosure is called
loopClosureThread(maxLoops) ==
  /\ loopPc = "sleep"
  /\ Cardinality(DOMAIN loopIndexContainer) < maxLoops
  /\ loopPc' = "empty"
  /\ UNCHANGED <<cfgVars, mainVars, detVars, graphVars, solverVars, pathLen,
                 storeVars, loopQueueVars, loopIndexContainer, copyKeyPoses,
                 loopKeyCur, loopKeyPre, vizPc, gpsVars,
                 loopInfoVars, loopLogVars>>

\* if (cloudKeyPoses3D->points.empty() == true) return; read without the lock
loopCheckEmpty ==
  /\ loopPc = "empty"
  /\ loopPc' = IF cloudKeyPoses = <<>> THEN "sleep" ELSE "copy"
  /\ UNCHANGED <<cfgVars, mainVars, detVars, graphVars, solverVars, pathLen,
                 storeVars, loopQueueVars, loopIndexContainer, copyKeyPoses,
                 loopKeyCur, loopKeyPre, vizPc, gpsVars,
                 loopInfoVars, loopLogVars>>

\* mtx.lock(); *copy_cloudKeyPoses3D = *cloudKeyPoses3D; ... mtx.unlock()
loopCopyKeyPoses ==
  /\ loopPc = "copy"
  /\ mtxOwner = "none"
  /\ copyKeyPoses' = cloudKeyPoses
  /\ loopPc' = "detect"
  /\ UNCHANGED <<cfgVars, mainVars, detVars, graphVars, solverVars, pathLen,
                 storeVars, loopQueueVars, loopIndexContainer,
                 loopKeyCur, loopKeyPre, vizPc, gpsVars,
                 loopInfoVars, loopLogVars>>

\* detectLoopClosureDistance on the copy, after detectLoopClosureExternal has
\* returned false (at once when loopInfoVec is empty); the radius search and
\* the time difference select any older keyframe or none
detectLoopClosureDistance ==
  /\ loopPc = "distance" \/ (loopPc = "detect" /\ loopInfoVec = <<>>)
  /\ LET cur == Len(copyKeyPoses) - 1
     IN \/ /\ ~loopIsKnown(loopIndexContainer, cur)
           /\ \E pre \in 0..(cur - 1) :
                /\ loopKeyCur' = cur
                /\ loopKeyPre' = pre
           /\ loopPc' = "near"
        \/ /\ loopPc' = "sleep"
           /\ UNCHANGED <<loopKeyCur, loopKeyPre>>
  /\ UNCHANGED <<cfgVars, mainVars, detVars, graphVars, solverVars, pathLen,
                 storeVars, loopQueueVars, loopIndexContainer, copyKeyPoses,
                 vizPc, gpsVars,
                 loopInfoVars, loopLogVars>>

\* loopFindNearKeyframes reads cornerCloudKeyFrames / surfCloudKeyFrames
\* without the lock; then ICP converges with a good score or not
loopFindNearKeyframes ==
  /\ loopPc = "near"
  /\ \E aligned \in BOOLEAN : loopPc' = IF aligned THEN "push" ELSE "sleep"
  /\ UNCHANGED <<cfgVars, mainVars, detVars, graphVars, solverVars, pathLen,
                 storeVars, loopQueueVars, loopIndexContainer, copyKeyPoses,
                 loopKeyCur, loopKeyPre, vizPc, gpsVars,
                 loopInfoVars, loopLogVars>>

\* mtx.lock(); the three queues get the constraint; mtx.unlock();
\* loopIndexContainer[loopKeyCur] = loopKeyPre
loopPushConstraint ==
  /\ loopPc = "push"
  /\ mtxOwner = "none"
  /\ loopIndexQueue' = Append(loopIndexQueue, <<loopKeyCur, loopKeyPre>>)
  /\ loopPoseQueue' = Append(loopPoseQueue, <<loopKeyCur, loopKeyPre>>)
  /\ loopNoiseQueue' = Append(loopNoiseQueue, <<loopKeyCur, loopKeyPre>>)
  /\ loopIndexEnqueued' = Append(loopIndexEnqueued, <<loopKeyCur, loopKeyPre>>)
  /\ loopIndexContainer' =
       [k \in DOMAIN loopIndexContainer \cup {loopKeyCur} |->
          IF k = loopKeyCur THEN loopKeyPre ELSE loopIndexContainer[k]]
  /\ loopPc' = "sleep"
  /\ UNCHANGED <<cfgVars, mainVars, detVars, graphVars, solverVars, pathLen,
                 storeVars, copyKeyPoses, loopKeyCur, loopKeyPre, vizPc, gpsVars,
                 loopInfoVars, loopIndexAdded>>

\* The two critical sections of performLoopClosure statement by statement.
\* mtx.lock() before the copy
loopLockForCopy ==
  /\ loopPc = "copy"
  /\ mtxOwner = "none"
  /\ mtxOwner' = "loop"
  /\ loopPc' = "copying"
  /\ UNCHANGED <<cfgVars, pc, stepCount, requiredSaveFrame, detVars, graphVars,
                 solverVars, pathLen, storeVars, loopQueueVars, loopIndexContainer,
                 copyKeyPoses, loopKeyCur, loopKeyPre, vizPc, gpsVars,
                 loopInfoVars, loopLogVars>>

\* *copy_cloudKeyPoses3D = *cloudKeyPoses3D; ...; mtx.unlock()
loopCopyUnlock ==
  /\ loopPc = "copying"
  /\ copyKeyPoses' = cloudKeyPoses
  /\ mtxOwner' = "none"
  /\ loopPc' = "detect"
  /\ UNCHANGED <<cfgVars, pc, stepCount, requiredSaveFrame, detVars, graphVars,
                 solverVars, pathLen, storeVars, loopQueueVars, loopIndexContainer,
                 loopKeyCur, loopKeyPre, vizPc, gpsVars,
                 loopInfoVars, loopLogVars>>

\* mtx.lock() before the constraint is added
loopLockForPush ==
  /\ loopPc = "push"
  /\ mtxOwner = "none"
  /\ mtxOwner' = "loop"
  /\ loopPc' = "pushIndex"
  /\ UNCHANGED <<cfgVars, pc, stepCount, requiredSaveFrame, detVars, graphVars,
                 solverVars, pathLen, storeVars, loopQueueVars, loopIndexContainer,
                 copyKeyPoses, loopKeyCur, loopKeyPre, vizPc, gpsVars,
                 loopInfoVars, loopLogVars>>

\* variant of ownerWhilePushing that gives the lock back after the first
\* push_back
ownerReleasedWhilePushing == "none"

\* the owner of mtx between the three push_back calls
ownerWhilePushing == "loop"

\* loopIndexQueue.push_back(make_pair(loopKeyCur, loopKeyPre))
loopPushIndex ==
  /\ loopPc = "pushIndex"
  /\ loopIndexQueue' = Append(loopIndexQueue, <<loopKeyCur, loopKeyPre>>)
  /\ loopIndexEnqueued' = Append(loopIndexEnqueued, <<loopKeyCur, loopKeyPre>>)
  /\ mtxOwner' = ownerWhilePushing
  /\ loopPc' = "pushPose"
  /\ UNCHANGED <<cfgVars, pc, stepCount, requiredSaveFrame, detVars, graphVars,
                 solverVars, pathLen, storeVars, loopPoseQueue, loopNoiseQueue,
                 loopIndexContainer, copyKeyPoses, loopKeyCur, loopKeyPre, vizPc,
                 gpsVars, loopInfoVars, loopIndexAdded>>

\* loopPoseQueue.push_back(poseFrom.between(poseTo))
loopPushPose ==
  /\ loopPc = "pushPose"
  /\ loopPoseQueue' = Append(loopPoseQueue, <<loopKeyCur, loopKeyPre>>)
  /\ loopPc' = "pushNoise"
  /\ UNCHANGED <<cfgVars, mainVars, detVars, graphVars,
                 solverVars, pathLen, storeVars, loopIndexQueue, loopNoiseQueue,
                 loopIndexContainer, copyKeyPoses, loopKeyCur, loopKeyPre, vizPc,
                 gpsVars, loopInfoVars, loopLogVars>>

\* loopNoiseQueue.push_back(constraintNoise); mtx.unlock();
\* loopIndexContainer[loopKeyCur] = loopKeyPre
loopPushNoise ==
  /\ loopPc = "pushNoise"
  /\ loopNoiseQueue' = Append(loopNoiseQueue, <<loopKeyCur, loopKeyPre>>)
  /\ mtxOwner' = IF mtxOwner = "loop" THEN "none" ELSE mtxOwner
  /\ loopIndexContainer' =
       [k \in DOMAIN loopIndexContainer \cup {loopKeyCur} |->
          IF k = loopKeyCur THEN loopKeyPre ELSE loopIndexContainer[k]]
  /\ loopPc' = "sleep"
  /\ UNCHANGED <<cfgVars, pc, stepCount, requiredSaveFrame, detVars, graphVars,
                 solverVars, pathLen, storeVars, loopIndexQueue, loopPoseQueue,
                 copyKeyPoses, loopKeyCur, loopKeyPre, vizPc,
                 gpsVars, loopInfoVars, loopLogVars>>

\* ------------------------------------------------- global map visualization
\* visualizeGlobalMapThread: rate.sleep() is over, publishGlobalMap is called
\* and there is a subscriber
visualizeGlobalMapThread ==
  /\ vizPc = "sleep"
  /\ vizPc' = "empty"
  /\ UNCHANGED <<cfgVars, mainVars, detVars, graphVars, solverVars, pathLen,
                 storeVars, loopQueueVars, loopVars, gpsVars,
                 loopInfoVars, loopLogVars>>

\* if (cloudKeyPoses3D->points.empty() == true) return; read without the lock
vizCheckEmpty ==
  /\ vizPc = "empty"
  /\ vizPc' = IF cloudKeyPoses = <<>> THEN "sleep" ELSE "search"
  /\ UNCHANGED <<cfgVars, mainVars, detVars, graphVars, solverVars, pathLen,
                 storeVars, loopQueueVars, loopVars, gpsVars,
                 loopInfoVars, loopLogVars>>

\* mtx.lock(); kdtreeGlobalMap->radiusSearch(...); mtx.unlock()
vizSearch ==
  /\ vizPc = "search"
  /\ mtxOwner = "none"
  /\ vizPc' = "extract"
  /\ UNCHANGED <<cfgVars, mainVars, detVars, graphVars, solverVars, pathLen,
                 storeVars, loopQueueVars, loopVars, gpsVars,
                 loopInfoVars, loopLogVars>>

\* the loops over cloudKeyPoses3D, cornerCloudKeyFrames, surfCloudKeyFrames
\* and cloudKeyPoses6D after the unlock
vizExtract ==
  /\ vizPc = "extract"
  /\ vizPc' = "sleep"
  /\ UNCHANGED <<cfgVars, mainVars, detVars, graphVars, solverVars, pathLen,
                 storeVars, loopQueueVars, loopVars, gpsVars,
                 loopInfoVars, loopLogVars>>

\* ------------------------------------------------------------ specification
\* the state after the constructor of mapOptimization, with the configuration
\* the ParamServer has read
Init(preLoose, interLoose) ==
  /\ numberOfPreLooseCouplingSteps \in preLoose
  /\ numberOfInterLooseCouplingSteps \in interLoose
  /\ pc = "idle" /\ mtxOwner = "none" /\ stepCount = 0 /\ requiredSaveFrame = FALSE
  /\ detPc = "idle" /\ detections = [n |-> 0, stamp |-> 0]
  /\ detectionIsActive = FALSE /\ detLaunched = 0
  /\ numberOfNodes = 0 /\ keyPoseIndices = <<>>
  /\ numberOfRegisteredObjects = 0 /\ numberOfTrackingObjects = 0
  /\ objects = <<>> /\ pathLen = EmptyFn
  /\ aLoopIsClosed = FALSE /\ anyObjectIsTightlyCoupled = FALSE
  /\ isamKeys = {} /\ isamCurrentEstimate = EmptyFn /\ prevEstimate = EmptyFn
  /\ solverCalls = <<>> /\ poseCovariance = LowCovariance
  /\ assocLog = EmptyFn /\ stepTrace = <<>> /\ birthLog = EmptyFn
  /\ scanLog = [scan |-> NoScan, before |-> NoScan.guess, after |-> NoScan.guess]
  /\ isDegenerate = FALSE /\ matP = {}
  /\ degenerateLog = [computedAt |-> 0, dirs |-> {}, applied |-> {}]
  /\ cloudKeyPoses = <<>> /\ keyFrameClouds = <<>> /\ globalPath = <<>>
  /\ cloudKeyPoses6D = <<>> /\ surfCloudKeyFrames = <<>>
  /\ laserCloudMapContainer = {} /\ transBetween = NoMotion
  /\ keyPosesFarApart = FALSE
  /\ loopIndexQueue = <<>> /\ loopPoseQueue = <<>> /\ loopNoiseQueue = <<>>
  /\ loopIndexContainer = EmptyFn /\ loopPc = "sleep" /\ copyKeyPoses = <<>>
  /\ loopKeyCur = -1 /\ loopKeyPre = -1
  /\ vizPc = "sleep"
  /\ gpsQueue = <<>> /\ lastGPSPoint = 0 /\ gpsReceived = 0
  /\ loopInfoVec = <<>> /\ loopInfoLog = <<>> /\ loopInfoTaken = 0
  /\ loopIndexEnqueued = <<>> /\ loopIndexAdded = <<>>

\* The tracker with several objects: the LiDAR handler and its detection task.
InitTracker == Init(1..MaxPreLoose, 1..MaxInterLoose)

Next ==
  \/ laserCloudInfoHandlerLaunch(MaxSteps)
  \/ getDetectionsReset
  \/ getDetectionsCall(MaxDetections)
  \/ laserCloudInfoHandlerJoin({LowCovariance}, {FALSE}, MaxObjects, {Still, Moved}, {NoScan})

Spec == InitTracker /\ [][Next]_vars

\* The life of a track over more steps, with one box per response.
NextLifecycle ==
  \/ laserCloudInfoHandlerLaunch(MaxStepsLifecycle)
  \/ getDetectionsReset
  \/ getDetectionsCall(MaxDetectionsLifecycle)
  \/ laserCloudInfoHandlerJoin({LowCovariance}, {FALSE}, MaxObjectsLifecycle,
                               {Still, Moved}, {NoScan})

SpecLifecycle == InitTracker /\ [][NextLifecycle]_vars

\* Mapping: the handler, the GPS callback and the loop-closure task.
InitMapping == Init(1..MaxPreLoose, {1})

NextMapping ==
  \/ laserCloudInfoHandlerLaunch(MaxStepsMapping)
  \/ getDetectionsReset
  \/ getDetectionsCall(MaxDetectionsMapping)
  \/ laserCloudInfoHandlerJoin(PoseCovariances, BOOLEAN, MaxObjectsMapping,
                               {Still, Moved}, {NoScan})
  \/ gpsHandler(GpsMessages, MaxGps, MaxStepsMapping)
  \/ loopClosureThread(MaxLoops)
  \/ loopCheckEmpty
  \/ loopCopyKeyPoses
  \/ detectLoopClosureDistance
  \/ loopFindNearKeyframes
  \/ loopPushConstraint

SpecMapping == InitMapping /\ [][NextMapping]_vars

\* The tasks that share the keyframe store: the handler, the loop-closure
\* task and the global-map task, without detections.
NextTasks ==
  \/ laserCloudInfoHandlerLaunch(MaxStepsTasks)
  \/ getDetectionsReset
  \/ getDetectionsCall(0)
  \/ laserCloudInfoHandlerJoin({LowCovariance}, {FALSE}, 0, {Still, Moved}, {NoScan})
  \/ loopClosureThread(MaxLoops)
  \/ loopCheckEmpty
  \/ loopCopyKeyPoses
  \/ detectLoopClosureDistance
  \/ loopFindNearKeyframes
  \/ loopPushConstraint
  \/ visualizeGlobalMapThread
  \/ vizCheckEmpty
  \/ vizSearch
  \/ vizExtract

SpecTasks == InitMapping /\ [][NextTasks]_vars

\* The keyframe decision over all motions, without detections.
NextKeyframe ==
  \/ laserCloudInfoHandlerLaunch(MaxStepsKeyframe)
  \/ getDetectionsReset
  \/ getDetectionsCall(0)
  \/ laserCloudInfoHandlerJoin({LowCovariance}, {FALSE}, 0, Motions, {NoScan})

SpecKeyframe == InitMapping /\ [][NextKeyframe]_vars

\* The loop-info callback and the loop-closure task that takes its messages.
NextLoopInfo ==
  \/ laserCloudInfoHandlerLaunch(MaxStepsLoopInfo)
  \/ getDetectionsReset
  \/ getDetectionsCall(0)
  \/ laserCloudInfoHandlerJoin({LowCovariance}, {FALSE}, 0, {Moved}, {NoScan})
  \/ loopInfoHandler(FewLoopInfoMessages, MaxLoopInfo)
  \/ loopClosureThread(MaxLoops)
  \/ loopCheckEmpty
  \/ loopCopyKeyPoses
  \/ detectLoopClosureExternal
  \/ detectLoopClosureDistance
  \/ loopFindNearKeyframes
  \/ loopPushConstraint

SpecLoopInfo == InitMapping /\ [][NextLoopInfo]_vars

\* Loop closure from external loop info and from distance, over several
\* iterations of the task.
NextExternal ==
  \/ laserCloudInfoHandlerLaunch(MaxStepsExternal)
  \/ getDetectionsReset
  \/ getDetectionsCall(0)
  \/ laserCloudInfoHandlerJoin({LowCovariance}, {FALSE}, 0, {Still, Moved}, {NoScan})
  \/ loopInfoHandler(LoopInfoMessages, MaxLoopInfoExternal)
  \/ loopClosureThread(MaxLoopsExternal)
  \/ loopCheckEmpty
  \/ loopCopyKeyPoses
  \/ detectLoopClosureExternal
  \/ detectLoopClosureDistance
  \/ loopFindNearKeyframes
  \/ loopPushConstraint

SpecExternal == InitMapping /\ [][NextExternal]_vars

\* The handler and the GPS callback over enough steps for two GPS factors.
NextGps ==
  \/ laserCloudInfoHandlerLaunch(MaxStepsGps)
  \/ getDetectionsReset
  \/ getDetectionsCall(0)
  \/ laserCloudInfoHandlerJoin(PoseCovariances, BOOLEAN, 0, {Still, Moved}, {NoScan})
  \/ gpsHandler(GpsMessagesFar, MaxGpsFixes, MaxStepsGps)

SpecGps == InitMapping /\ [][NextGps]_vars

\* Scan matching over all scans, without detections.
NextScan ==
  \/ laserCloudInfoHandlerLaunch(MaxStepsScan)
  \/ getDetectionsReset
  \/ getDetectionsCall(0)
  \/ laserCloudInfoHandlerJoin({LowCovariance}, {FALSE}, 0, {Moved}, Scans)

SpecScan == InitMapping /\ [][NextScan]_vars

\* The handler and the loop-closure task with its critical sections
\* statement by statement.
NextLock ==
  \/ laserCloudInfoHandlerLaunch(MaxStepsLock)
  \/ getDetectionsReset
  \/ getDetectionsCall(0)
  \/ laserCloudInfoHandlerJoin({LowCovariance}, {FALSE}, 0, {Still, Moved}, {NoScan})
  \/ loopClosureThread(MaxLoopsLock)
  \/ loopCheckEmpty
  \/ loopLockForCopy
  \/ loopCopyUnlock
  \/ detectLoopClosureDistance
  \/ loopFindNearKeyframes
  \/ loopLockForPush
  \/ loopPushIndex
  \/ loopPushPose
  \/ loopPushNoise

SpecLock == InitMapping /\ [][NextLock]_vars

\* Scan matching over several steps, on scans without IMU data that start
\* from a guess within the limits of transformUpdate.
ScansWithoutImu ==
  {Scan(Transform(0, 0, 0, 0, 0, 0), enough, selNum, selNumMoved,
        Transform(d, 0, 0, d, 0, 0), FALSE, 0, 0) :
     enough \in BOOLEAN, selNum \in {49, 50}, selNumMoved \in {49, 50}, d \in {0, 2}}

NextDegenerate ==
  \/ laserCloudInfoHandlerLaunch(MaxStepsDegenerate)
  \/ getDetectionsReset
  \/ getDetectionsCall(0)
  \/ laserCloudInfoHandlerJoin({LowCovariance}, {FALSE}, 0, {Moved}, ScansWithoutImu)

SpecDegenerate == InitMapping /\ [][NextDegenerate]_vars

\* ------------------------------------------------------------------ claims
FactorsOf(call) == {call.graph[k] : k \in 1..Len(call.graph)}
MainGraph == IF solverCalls = <<>> THEN {} ELSE FactorsOf(solverCalls[1])
StepFactors == UNION {FactorsOf(solverCalls[i]) : i \in 1..Len(solverCalls)}
DetectionFactorTypes == {"TightlyCoupledDetection", "LooselyCoupledDetection"}
CurrentEpoch == IF objects = <<>> THEN EmptyFn ELSE Last(objects)

\* C1, amended: every track of every epoch has
\* min(0, P + 1 - I) <= trackScore <= P + 1, with P = numberOfPreLooseCouplingSteps
\* and I = numberOfInterLooseCouplingSteps: the demotion subtracts I from a
\* score of P + 1 and is not clamped at 0.
LowestTrackScore ==
  IF numberOfPreLooseCouplingSteps + 1 - numberOfInterLooseCouplingSteps < 0
  THEN numberOfPreLooseCouplingSteps + 1 - numberOfInterLooseCouplingSteps ELSE 0

C1_TrackScoreRange ==
  \A e \in 1..Len(objects) : \A oi \in DOMAIN objects[e] :
    /\ LowestTrackScore <= objects[e][oi].trackScore
    /\ objects[e][oi].trackScore <= numberOfPreLooseCouplingSteps + 1

\* C1 as stated: every track of every epoch has 0 <= trackScore <= P + 1.
C1_TrackScoreNonNegative ==
  \A e \in 1..Len(objects) : \A oi \in DOMAIN objects[e] :
    /\ 0 <= objects[e][oi].trackScore
    /\ objects[e][oi].trackScore <= numberOfPreLooseCouplingSteps + 1

\* a track at the cap P + 1 that the next step demotes below 0
C1_DemotedBelowZero ==
  \E e \in 1..(Len(objects) - 1) : \E oi \in DOMAIN objects[e] :
    /\ objects[e][oi].trackScore = numberOfPreLooseCouplingSteps + 1
    /\ oi \in DOMAIN objects[e + 1]
    /\ objects[e + 1][oi].trackScore < 0

\* C2: a track is marked tightly coupled in a step and gets a
\* TightlyCoupledDetection factor, in the main graph only, only if in that
\* step it was matched to a detection, its trackScore is at least P + 1, the
\* tight-matching error passed the threshold, and the velocity test over its
\* last K recorded velocity nodes passed on the estimate of the step before.
HasTightFactor(oi) ==
  \E f \in MainGraph : f.type = "TightlyCoupledDetection" /\ f.obj = oi

C2_TightCouplingIsEarned ==
  /\ \A i \in 2..Len(solverCalls) : \A f \in FactorsOf(solverCalls[i]) :
       f.type # "TightlyCoupledDetection"
  /\ \A f \in MainGraph :
       f.type = "TightlyCoupledDetection" => f.obj \in DOMAIN CurrentEpoch
  /\ \A oi \in DOMAIN CurrentEpoch :
       LET object == CurrentEpoch[oi] IN
       (HasTightFactor(oi) \/ (object.isTightlyCoupled /\ object.lostCount = 0)) =>
         /\ HasTightFactor(oi)
         /\ object.isTightlyCoupled
         /\ oi \in DOMAIN assocLog
         /\ assocLog[oi].input.found
         /\ assocLog[oi].lostBefore = 0
         /\ object.trackScore >= numberOfPreLooseCouplingSteps + 1
         /\ assocLog[oi].input.spatial
         /\ velocityIsConsistent(object, numberOfVelocityConsistencySteps, prevEstimate,
                                 objectLinearVelocityConsistencyVarianceThreshold)

\* a step that couples a track tightly
C2_TightlyCoupledStep == \E oi \in DOMAIN CurrentEpoch : HasTightFactor(oi)

\* C3: once a track ends a step with lostCount > trackingStepsForLostObject
\* (INT_MAX of a retired track included), no later epoch has its objectIndex.
C3_RetiredTrackNeverReturns ==
  \A e \in 1..Len(objects) : \A oi \in DOMAIN objects[e] :
    objects[e][oi].lostCount > trackingStepsForLostObject =>
      \A later \in (e + 1)..Len(objects) : oi \notin DOMAIN objects[later]

\* a track lost for more than trackingStepsForLostObject steps without being
\* retired, followed by a later epoch
C3_TrackTimedOutAndDropped ==
  \E e \in 1..(Len(objects) - 1) : \E oi \in DOMAIN objects[e] :
    /\ objects[e][oi].lostCount > trackingStepsForLostObject
    /\ objects[e][oi].lostCount < IntMax

\* C4: every node id below the counter numberOfNodes is bound exactly once,
\* to an ego key, an object pose node or an object velocity node, and no id
\* at or above the counter is bound.
NodeBindings ==
  {[kind |-> "ego", at |-> <<i, 0>>, id |-> keyPoseIndices[i]] :
     i \in 1..Len(keyPoseIndices)}
  \cup UNION {{[kind |-> "pose", at |-> <<e, oi>>, id |-> objects[e][oi].poseNodeIndex] :
                 oi \in {o \in DOMAIN objects[e] : objects[e][o].poseNodeIndex # NoNode}} :
              e \in 1..Len(objects)}
  \cup UNION {{[kind |-> "velocity", at |-> <<e, oi>>,
                id |-> objects[e][oi].velocityNodeIndex] :
                 oi \in {o \in DOMAIN objects[e] : objects[e][o].velocityNodeIndex # NoNode}} :
              e \in 1..Len(objects)}

C4_NodeIdsBoundOnce ==
  /\ \A b1 \in NodeBindings : \A b2 \in NodeBindings : b1.id = b2.id => b1 = b2
  /\ {b.id : b \in NodeBindings} = 0..(numberOfNodes - 1)

\* two ego keys and two tracks that were propagated
C4_SeveralKindsOfNodes ==
  /\ Len(keyPoseIndices) >= 2
  /\ \E e \in 2..Len(objects) : \E o1 \in DOMAIN objects[e] : \E o2 \in DOMAIN objects[e] :
       /\ o1 # o2
       /\ ~objects[e][o1].isFirst /\ objects[e][o1].poseNodeIndex # NoNode
       /\ ~objects[e][o2].isFirst /\ objects[e][o2].poseNodeIndex # NoNode

\* C5: every call update(graph, values) of a step, the main graph first and
\* the loosely coupled graph second, has each key of each factor in the
\* solver or among the values, and no value whose key is in the solver.
UpdateCalls == {i \in 1..Len(solverCalls) : solverCalls[i].kind = "update"}

C5_UpdatePrecondition ==
  /\ solverCalls # <<>> => 1 \in UpdateCalls /\ Cardinality(UpdateCalls) <= 2
  /\ \A i \in UpdateCalls :
       LET call == solverCalls[i] IN
       /\ \A f \in FactorsOf(call) : \A m \in 1..Len(f.keys) :
            f.keys[m] \in call.known \cup call.values
       /\ call.values \cap call.known = {}

\* a step without a keyframe that couples one track tightly to the older ego
\* key and hands a loosely coupled track to the second update
C5_BothGraphsWithoutKeyframe ==
  /\ solverCalls # <<>>
  /\ ~requiredSaveFrame
  /\ Cardinality(UpdateCalls) = 2
  /\ \E oi \in DOMAIN CurrentEpoch : HasTightFactor(oi)

\* C6: after a step, every track of the current epoch with lostCount = 0 has
\* a pose node and a velocity node that are not the index of a lost track and
\* that the solver knows.
C6_LiveTracksHaveSolvedNodes ==
  pc = "idle" =>
    \A oi \in DOMAIN CurrentEpoch :
      CurrentEpoch[oi].lostCount = 0 =>
        /\ CurrentEpoch[oi].poseNodeIndex # NoNode
        /\ CurrentEpoch[oi].velocityNodeIndex # NoNode
        /\ CurrentEpoch[oi].poseNodeIndex \in isamKeys
        /\ CurrentEpoch[oi].velocityNodeIndex \in isamKeys
        /\ CurrentEpoch[oi].velocity # Missing

\* a step without a keyframe after which an older track is loosely coupled
C6_LooselyCoupledWithoutKeyframe ==
  /\ pc = "idle"
  /\ ~requiredSaveFrame
  /\ \E oi \in DOMAIN CurrentEpoch :
       /\ CurrentEpoch[oi].lostCount = 0
       /\ ~CurrentEpoch[oi].isFirst
       /\ ~CurrentEpoch[oi].isTightlyCoupled

\* C7 as stated: when the detection service call of a step fails, every
\* track of the step has its lostCount incremented, no track is born and no
\* detection factor is handed to the solver in that step.
C7_FailedCallIsDetectionFree ==
  (pc = "idle" /\ stepCount > 0 /\ ~detectionIsActive) =>
    /\ \A f \in StepFactors : f.type \notin DetectionFactorTypes
    /\ \A oi \in DOMAIN CurrentEpoch :
         /\ ~CurrentEpoch[oi].isFirst
         /\ Len(objects) >= 2
         /\ oi \in DOMAIN objects[Len(objects) - 1]
         /\ CurrentEpoch[oi].lostCount = objects[Len(objects) - 1][oi].lostCount + 1

\* C8: each processed step launches one detection task; the task exists only
\* while the handler is between the launch and the join; the tracks, the
\* factors and the solver change only in the step of the handler that has
\* waited for the end of the task.
C8_step ==
  /\ (detLaunched' # detLaunched) =>
       (detLaunched' = detLaunched + 1 /\ stepCount' = stepCount + 1)
  /\ (stepCount' # stepCount) => detLaunched' = detLaunched + 1
  /\ detLaunched' = stepCount'
  /\ (detPc' # "idle") => pc' = "matching"
  /\ (objects' # objects \/ solverCalls' # solverCalls \/ isamKeys' # isamKeys
      \/ assocLog' # assocLog \/ pathLen' # pathLen)
       => (detPc = "done" /\ detPc' = "idle")
  /\ (detections' # detections \/ detectionIsActive' # detectionIsActive)
       => (pc = "matching" /\ detPc \in {"reset", "call"})

C8_OneJoinedDetectionTaskPerStep == [][C8_step]_vars

\* the detection task is in its service call while the handler is matching,
\* in a step after the first
C8_TaskRunsDuringMatching ==
  pc = "matching" /\ detPc = "call" /\ stepCount >= 2 /\ detLaunched = stepCount

\* C9 as stated: while the handler holds the lock and processes a step,
\* neither the loop-closure task nor the global-map task is at an access to
\* the keyframe poses or the keyframe clouds.
C9_StoreAccessOnlyUnderLock ==
  mtxOwner = "main" =>
    /\ loopPc \notin {"empty", "near"}
    /\ vizPc \notin {"empty", "extract"}

\* C10: in a step that adds a loop factor to the main graph, update() without
\* arguments is called five more times after the regular update(graph,
\* values); update(); and before the estimate is read; in a step that adds
\* neither a loop factor nor a GPS factor it is called once.
RECURSIVE SweepsFrom(_, _)
SweepsFrom(calls, i) ==
  IF i > Len(calls) THEN 0
  ELSE IF calls[i].kind # "sweep" THEN 0
  ELSE 1 + SweepsFrom(calls, i + 1)

AddsFactor(type) == \E f \in MainGraph : f.type = type

C10_FiveExtraSweepsOnLoop ==
  solverCalls # <<>> =>
    /\ AddsFactor("Loop") => SweepsFrom(solverCalls, 2) = 1 + 5
    /\ (~AddsFactor("Loop") /\ ~AddsFactor("GPS")) => SweepsFrom(solverCalls, 2) = 1
    /\ \A i \in UpdateCalls : i > 1 => SweepsFrom(solverCalls, i + 1) = 1

\* a step that adds a loop factor
C10_LoopFactorAdded == AddsFactor("Loop")

\* the track ended the step before tightly coupled
WasTightlyCoupled(oi) ==
  /\ Len(objects) >= 2
  /\ oi \in DOMAIN objects[Len(objects) - 1]
  /\ objects[Len(objects) - 1][oi].isTightlyCoupled
  /\ objects[Len(objects) - 1][oi].lostCount = 0

HasLooseFactor(oi) ==
  \E i \in 2..Len(solverCalls) : \E f \in FactorsOf(solverCalls[i]) :
    f.type = "LooselyCoupledDetection" /\ f.obj = oi

\* C11, amended: a track that was tightly coupled and is matched again
\* (match error below detectionMatchThreshold) without passing the tight
\* tests is loosely coupled in that step and its trackScore goes from P + 1
\* to P + 1 - I; a track whose match error is not below the threshold is
\* lost instead: lostCount + 1, trackScore 0, no detection factor.
C11_DemotedWhenMatchedButNotTight ==
  \A oi \in DOMAIN assocLog :
    WasTightlyCoupled(oi) =>
      /\ assocLog[oi].scoreBefore = numberOfPreLooseCouplingSteps + 1
      /\ (assocLog[oi].input.found /\ ~HasTightFactor(oi)) =>
           /\ ~CurrentEpoch[oi].isTightlyCoupled
           /\ HasLooseFactor(oi)
           /\ CurrentEpoch[oi].lostCount = 0
           /\ CurrentEpoch[oi].trackScore =
                assocLog[oi].scoreBefore - numberOfInterLooseCouplingSteps
      /\ ~assocLog[oi].input.found =>
           /\ CurrentEpoch[oi].trackScore = 0
           /\ CurrentEpoch[oi].lostCount >= 1
           /\ ~HasLooseFactor(oi) /\ ~HasTightFactor(oi)

\* C11 as stated: a track that was tightly coupled and whose match error is
\* not below detectionMatchThreshold is loosely coupled in that step and its
\* trackScore is reduced by numberOfInterLooseCouplingSteps.
C11_DemotedWhenNotMatched ==
  \A oi \in DOMAIN assocLog :
    (WasTightlyCoupled(oi) /\ ~assocLog[oi].input.found) =>
      /\ ~CurrentEpoch[oi].isTightlyCoupled
      /\ HasLooseFactor(oi)
      /\ CurrentEpoch[oi].trackScore =
           assocLog[oi].scoreBefore - numberOfInterLooseCouplingSteps

\* a track that was tightly coupled is matched and demoted
C11_TightTrackDemoted ==
  \E oi \in DOMAIN assocLog :
    /\ WasTightlyCoupled(oi)
    /\ assocLog[oi].input.found
    /\ HasLooseFactor(oi)

\* the tracks of the last step that were retired onto detection j: found while
\* lost, or lost in this step and within the data-association threshold
RetiredOnto(j) ==
  {o \in DOMAIN assocLog :
     /\ CurrentEpoch[o].lostCount = IntMax
     /\ \/ assocLog[o].input.found /\ assocLog[o].input.j = j
        \/ ~assocLog[o].input.found /\ assocLog[o].input.daFound
           /\ assocLog[o].input.jDA = j}

\* the tracking indices of all tracks of the epochs before epoch e
TrackingIndicesBefore(e) ==
  UNION {{objects[k][o].objectIndexForTracking : o \in DOMAIN objects[k]} :
           k \in 1..(e - 1)}

\* the track ended epoch e lost for more than trackingStepsForLostObject
\* steps without having been retired onto a detection
TimedOut(e, oi) ==
  /\ objects[e][oi].lostCount > trackingStepsForLostObject
  /\ objects[e][oi].lostCount < IntMax

\* C12, amended: a track takes part in the association only while it was
\* lost for at most trackingStepsForLostObject steps; a track born from a
\* detection onto which such a track was retired in the same step gets a new
\* objectIndex and the tracking index of a track retired onto it; every
\* other birth gets a new objectIndex and a new tracking index; the tracking
\* index of a track that timed out is never given to a track born later.
C12_TrackingIndexInheritedOnRetirement ==
  /\ \A o \in DOMAIN assocLog : assocLog[o].lostBefore <= trackingStepsForLostObject
  /\ \A oi \in DOMAIN CurrentEpoch :
       CurrentEpoch[oi].isFirst =>
         LET born == CurrentEpoch[oi]
             donors == RetiredOnto(born.detection.idx)
         IN /\ \A k \in 1..(Len(objects) - 1) : oi \notin DOMAIN objects[k]
            /\ IF donors # {}
               THEN \E o \in donors :
                      born.objectIndexForTracking = CurrentEpoch[o].objectIndexForTracking
               ELSE /\ born.objectIndexForTracking \notin TrackingIndicesBefore(Len(objects))
                    /\ \A o \in DOMAIN CurrentEpoch :
                         o # oi => CurrentEpoch[o].objectIndexForTracking
                                     # born.objectIndexForTracking
  /\ \A e \in 1..Len(objects) : \A oi \in DOMAIN objects[e] :
       TimedOut(e, oi) =>
         \A l \in (e + 1)..Len(objects) : \A o \in DOMAIN objects[l] :
           objects[l][o].objectIndexForTracking # objects[e][oi].objectIndexForTracking

\* C12 as stated: after a track was lost for trackingStepsForLostObject + 1
\* steps, a later step that gives birth to tracks gives one of them the
\* tracking index of that track.
C12_TimedOutTrackIsInherited ==
  \A e \in 1..Len(objects) : \A oi \in DOMAIN objects[e] :
    TimedOut(e, oi) =>
      \A l \in (e + 1)..Len(objects) :
        (\E o \in DOMAIN objects[l] : objects[l][o].isFirst) =>
          \E o \in DOMAIN objects[l] :
            /\ objects[l][o].isFirst
            /\ objects[l][o].objectIndexForTracking = objects[e][oi].objectIndexForTracking

\* a track lost in an earlier step is found again, retired, and the track
\* born from its detection carries its tracking index
C12_LostTrackFoundAgain ==
  \E oi \in DOMAIN CurrentEpoch : \E o \in DOMAIN assocLog :
    /\ CurrentEpoch[oi].isFirst
    /\ o \in RetiredOnto(CurrentEpoch[oi].detection.idx)
    /\ assocLog[o].lostBefore >= 1
    /\ CurrentEpoch[oi].objectIndexForTracking = CurrentEpoch[o].objectIndexForTracking

\* the epoch (= step) in which the track of the current epoch was born
BirthEpoch(oi) == CHOOSE b \in 1..Len(objects) :
                    /\ oi \in DOMAIN objects[b]
                    /\ \A k \in 1..(b - 1) : oi \notin DOMAIN objects[k]

\* the track was matched in every step after its birth
MatchedSinceBirth(oi) ==
  \A k \in (BirthEpoch(oi) + 1)..Len(objects) :
    oi \in DOMAIN objects[k] /\ objects[k][oi].lostCount = 0

\* C13: a track that was matched in every step since its birth is loosely
\* coupled in each of its first P + 1 steps (its trackScore before the n-th
\* match is n - 1), and in step P + 2 of its life, where the score reaches
\* P + 1, it is tightly coupled if it passes the spatial and the velocity
\* test; a track born at step 1 is the case BirthEpoch = 1.
C13_TightAfterPreLooseSteps ==
  \A oi \in DOMAIN CurrentEpoch :
    MatchedSinceBirth(oi) =>
      LET age == Len(objects) - BirthEpoch(oi)
          object == CurrentEpoch[oi]
      IN /\ (age >= 1 /\ age <= numberOfPreLooseCouplingSteps + 1) =>
              /\ oi \in DOMAIN assocLog
              /\ assocLog[oi].scoreBefore = age - 1
         /\ age < numberOfPreLooseCouplingSteps + 1 =>
              /\ ~object.isTightlyCoupled
              /\ HasLooseFactor(oi)
              /\ ~HasTightFactor(oi)
         /\ (/\ age = numberOfPreLooseCouplingSteps + 1
             /\ assocLog[oi].input.spatial
             /\ velocityIsConsistent(object, numberOfVelocityConsistencySteps,
                                     prevEstimate,
                                     objectLinearVelocityConsistencyVarianceThreshold)) =>
              /\ object.isTightlyCoupled
              /\ HasTightFactor(oi)
              /\ ~HasLooseFactor(oi)

\* a track born at step 1 and matched ever since is tightly coupled at step P + 2
C13_TightAtStepPPlusTwo ==
  \E oi \in DOMAIN CurrentEpoch :
    /\ BirthEpoch(oi) = 1
    /\ MatchedSinceBirth(oi)
    /\ Len(objects) = numberOfPreLooseCouplingSteps + 2
    /\ stepCount = numberOfPreLooseCouplingSteps + 2
    /\ HasTightFactor(oi)

\* C14 as stated: the history of previous velocity nodes of every track of
\* every epoch holds at most numberOfVelocityConsistencySteps entries.
C14_VelocityHistoryBounded ==
  \A e \in 1..Len(objects) : \A oi \in DOMAIN objects[e] :
    Len(objects[e][oi].previousVelocityNodeIndices) <= numberOfVelocityConsistencySteps

\* the object indices of the epochs before epoch e
ObjectIndicesBefore(e) == UNION {DOMAIN objects[k] : k \in 1..(e - 1)}

\* C15: a track is stored under its objectIndex; the tracks born in a step
\* get indices above every index used before, in the order of their
\* detections, and below the counter; an index that has left the epochs does
\* not come back; the tracking index of an objectIndex is the same in every
\* epoch that holds it.
C15_ObjectIndexMonotoneTrackingIndexStable ==
  /\ \A e \in 1..Len(objects) : \A oi \in DOMAIN objects[e] :
       /\ objects[e][oi].objectIndex = oi
       /\ oi < numberOfRegisteredObjects
       /\ objects[e][oi].isFirst <=> oi \notin ObjectIndicesBefore(e)
       /\ objects[e][oi].isFirst => \A o \in ObjectIndicesBefore(e) : o < oi
       /\ \A o \in DOMAIN objects[e] :
            (objects[e][oi].isFirst /\ objects[e][o].isFirst /\ o < oi) =>
              objects[e][o].detection.idx < objects[e][oi].detection.idx
  /\ \A e1 \in 1..Len(objects) : \A e2 \in e1..Len(objects) :
       \A oi \in DOMAIN objects[e1] \cap DOMAIN objects[e2] :
         /\ objects[e1][oi].objectIndexForTracking = objects[e2][oi].objectIndexForTracking
         /\ \A k \in e1..e2 : oi \in DOMAIN objects[k]
  /\ ObjectIndicesBefore(Len(objects) + 1) = 0..(numberOfRegisteredObjects - 1)

\* an older track is propagated into a step in which a second track is born
C15_SecondTrackBornLater ==
  \E e \in 2..Len(objects) : \E o1 \in DOMAIN objects[e] : \E o2 \in DOMAIN objects[e] :
    /\ o1 \in DOMAIN objects[e - 1]
    /\ objects[e][o2].isFirst
    /\ o1 < o2

\* C16, amended: in a step after the first keyframe a keyframe is added if
\* and only if the translation since the last keyframe is at least
\* addDistThreshold or the absolute value of roll, pitch or yaw of that
\* motion is at least addAngleThreshold.
C16_KeyframeIffAtLeastThreshold ==
  (pc = "idle" /\ transBetween # NoMotion) =>
    (requiredSaveFrame <=>
       \/ ~distanceIsBelow(transBetween, surroundingkeyframeAddingDistThreshold)
       \/ abs(transBetween.roll) >= surroundingkeyframeAddingAngleThreshold
       \/ abs(transBetween.pitch) >= surroundingkeyframeAddingAngleThreshold
       \/ abs(transBetween.yaw) >= surroundingkeyframeAddingAngleThreshold)

\* C16 as stated: a keyframe is added if and only if the translation is
\* strictly greater than addDistThreshold or an absolute angle is strictly
\* greater than addAngleThreshold.
C16_KeyframeIffAboveThreshold ==
  (pc = "idle" /\ transBetween # NoMotion) =>
    (requiredSaveFrame <=>
       \/ ~distanceIsBelow(transBetween, surroundingkeyframeAddingDistThreshold)
          /\ transBetween.x * transBetween.x + transBetween.y * transBetween.y
               + transBetween.z * transBetween.z
             # surroundingkeyframeAddingDistThreshold
                 * surroundingkeyframeAddingDistThreshold
       \/ abs(transBetween.roll) > surroundingkeyframeAddingAngleThreshold
       \/ abs(transBetween.pitch) > surroundingkeyframeAddingAngleThreshold
       \/ abs(transBetween.yaw) > surroundingkeyframeAddingAngleThreshold)

\* a keyframe added for a negative pitch at the threshold alone
C16_KeyframeAtTheThreshold ==
  /\ pc = "idle"
  /\ requiredSaveFrame
  /\ transBetween = Motion(1, 0, 0, 0, 0 - surroundingkeyframeAddingAngleThreshold, 1)

Additions == {"add", "insert", "erase"}
Updates == {"update", "sweep"}
ReadBacks == {"calculateEstimate", "saveKeyPose", "marginalCovariance",
              "saveKeyFrameCloud", "updatePath", "readBackObject"}
Publications == {"publishOdometry", "publishFrames"}
Positions(ops) == {i \in 1..Len(stepTrace) : stepTrace[i].op \in ops}
Precede(first, second) ==
  \A i \in Positions(first) : \A j \in Positions(second) : i < j

Suffix(s, n) == SubSeq(s, Len(s) - n + 1, Len(s))
Min(a, b) == IF a < b THEN a ELSE b

\* C18: the loop-info queue never holds more than 5 entries; its entries
\* have exactly two elements and are the most recently received two-element
\* messages in the order of their arrival, all of them up to 5 as long as
\* the loop-closure task has taken none.
C18_LoopInfoQueueHoldsLatestFive ==
  /\ Len(loopInfoVec) <= 5
  /\ Len(loopInfoVec) <= Len(loopInfoLog)
  /\ loopInfoVec = Suffix(loopInfoLog, Len(loopInfoVec))
  /\ \A i \in 1..Len(loopInfoVec) : Len(loopInfoVec[i]) = 2
  /\ loopInfoTaken = 0 => Len(loopInfoVec) = Min(5, Len(loopInfoLog))

\* six two-element messages have arrived, not all alike, none was taken and
\* the oldest has been dropped
C18_OldestDropped ==
  /\ Len(loopInfoLog) = 6
  /\ loopInfoTaken = 0
  /\ Len(loopInfoVec) = 5
  /\ loopInfoLog[1] # loopInfoLog[2]
  /\ loopInfoVec[1] = loopInfoLog[2]

\* C19: over all iterations of the loop-closure task, no two constraints
\* ever pushed on loopIndexQueue have the same cur and none has cur = pre;
\* every constraint pushed is either still in the queue or was added to the
\* graph as one factor, in the order of the pushes, so that the factors
\* added have distinct cur as well.
C19_OneConstraintForEachCur ==
  /\ \A i, j \in 1..Len(loopIndexEnqueued) :
       i # j => loopIndexEnqueued[i][1] # loopIndexEnqueued[j][1]
  /\ \A i \in 1..Len(loopIndexEnqueued) :
       loopIndexEnqueued[i][1] # loopIndexEnqueued[i][2]
  /\ loopIndexAdded \o loopIndexQueue = loopIndexEnqueued
  /\ {loopIndexEnqueued[i][1] : i \in 1..Len(loopIndexEnqueued)}
       \subseteq DOMAIN loopIndexContainer \cup {IF loopPc = "sleep" THEN -1 ELSE loopKeyCur}

\* two constraints were pushed and added to the graph, one of them found
\* from external loop info with pre after cur
C19_TwoConstraintsAdded ==
  /\ Len(loopIndexAdded) = 2
  /\ loopInfoTaken > 0
  /\ \E i \in 1..2 : loopIndexAdded[i][1] < loopIndexAdded[i][2]

GpsFactorAdded(calls) ==
  calls # <<>> /\ \E f \in FactorsOf(calls[1]) : f.type = "GPS"

\* C20: a step adds a GPS factor only if it adds a keyframe, the first and
\* the latest key pose are 5 m apart or more, the marginal variance of the
\* ego pose read at the last keyframe is not below poseCovThreshold in x or
\* in y, and the step takes from the GPS queue a message whose variances do
\* not exceed gpsCovThreshold and whose position is 5 m or more from the
\* last accepted one, which it becomes.
C20_GpsFactorOnlyWhenAllHold ==
  [][pc = "matching" /\ pc' = "idle" /\ GpsFactorAdded(solverCalls') =>
       /\ requiredSaveFrame'
       /\ Len(cloudKeyPoses') = Len(cloudKeyPoses) + 1
       /\ keyPosesFarApart'
       /\ poseCovariance.x \/ poseCovariance.y
       /\ \E i \in 1..Len(gpsQueue) :
            /\ ~gpsQueue[i].noisy
            /\ gpsQueue[i].pos # lastGPSPoint
            /\ lastGPSPoint' = gpsQueue[i].pos
            /\ gpsQueue' = SubSeq(gpsQueue, i + 1, Len(gpsQueue))]_vars

\* a step has added a GPS factor for a fix 10 m from the origin, after both
\* messages have arrived
C20_GpsFactorAdded ==
  /\ pc = "idle"
  /\ GpsFactorAdded(solverCalls)
  /\ lastGPSPoint = 2
  /\ gpsReceived = 2

\* scan2MapOptimization has run its loop in the last step
ScanMatched == pc = "idle" /\ stepCount > 1 /\ scanLog.scan.enough

\* C21: when fewer than 50 correspondences are selected in the scan matching
\* of a step, transformTobeMapped after scan matching equals
\* transformTobeMapped before it.
C21_PoseKeptBelowFiftyCorrespondences ==
  ScanMatched /\ scanLog.scan.selNum < 50 => scanLog.after = scanLog.before

\* the factors of the last step that belong to track oi
ObjectFactors(oi) == {f \in StepFactors : f.obj = oi}

\* C22: a track that ends a step with a positive lostCount has, in every
\* later epoch that holds it, a positive lostCount and no node; the step
\* after emits no detection, ConstantVelocity or StablePose factor for it;
\* when it is found by a detection in that step it is retired with
\* lostCount = INT_MAX, and a track born from that detection carries the
\* tracking index of a track retired onto it.
C22_LostTrackNeverReattached ==
  /\ \A e \in 2..Len(objects) : \A oi \in DOMAIN objects[e] \cap DOMAIN objects[e - 1] :
       objects[e - 1][oi].lostCount > 0 =>
         /\ objects[e][oi].lostCount > objects[e - 1][oi].lostCount
         /\ objects[e][oi].poseNodeIndex = NoNode
         /\ objects[e][oi].velocityNodeIndex = NoNode
  /\ pc = "idle" /\ Len(objects) >= 2 =>
       \A oi \in DOMAIN objects[Len(objects) - 1] :
         objects[Len(objects) - 1][oi].lostCount > 0 =>
           /\ ObjectFactors(oi) = {}
           /\ oi \in DOMAIN assocLog /\ assocLog[oi].input.found =>
                /\ CurrentEpoch[oi].lostCount = IntMax
                /\ \A b \in DOMAIN CurrentEpoch :
                     CurrentEpoch[b].isFirst
                     /\ CurrentEpoch[b].detection.idx = assocLog[oi].input.j =>
                       \E o \in RetiredOnto(assocLog[oi].input.j) :
                         CurrentEpoch[b].objectIndexForTracking
                           = CurrentEpoch[o].objectIndexForTracking

\* a track that was lost before the last step is found in it and retired,
\* while another track of the epoch has factors
C22_LostTrackFoundAndRetired ==
  /\ pc = "idle"
  /\ \E oi \in DOMAIN assocLog :
       /\ assocLog[oi].lostBefore > 0
       /\ assocLog[oi].lostBefore < IntMax
       /\ assocLog[oi].input.found
       /\ CurrentEpoch[oi].lostCount = IntMax
  /\ \E f \in StepFactors : f.obj >= 0

\* C23: after a step with at least one detection, a track whose best match
\* was not below detectionMatchThreshold has trackScore 0 and confidence 0;
\* its lostCount is one more than before, unless its data-association match
\* was below the threshold: then it is retired with lostCount = INT_MAX and
\* a track born from that detection carries the tracking index of a track
\* retired onto it.
C23_UnmatchedTrackLostOrRetired ==
  pc = "idle" /\ detections.n >= 1 =>
    \A oi \in DOMAIN assocLog :
      ~assocLog[oi].input.found =>
        /\ CurrentEpoch[oi].trackScore = 0
        /\ CurrentEpoch[oi].confidence = 0
        /\ IF assocLog[oi].input.daFound
           THEN /\ CurrentEpoch[oi].lostCount = IntMax
                /\ oi \in RetiredOnto(assocLog[oi].input.jDA)
                /\ \A b \in DOMAIN CurrentEpoch :
                     CurrentEpoch[b].isFirst
                     /\ CurrentEpoch[b].detection.idx = assocLog[oi].input.jDA =>
                       \E o \in RetiredOnto(assocLog[oi].input.jDA) :
                         CurrentEpoch[b].objectIndexForTracking
                           = CurrentEpoch[o].objectIndexForTracking
           ELSE CurrentEpoch[oi].lostCount = assocLog[oi].lostBefore + 1

\* a track with a positive score and no match is retired by data
\* association, and the track born from that detection has its tracking index
C23_RetiredByDataAssociation ==
  /\ pc = "idle" /\ detections.n >= 1
  /\ \E o \in DOMAIN assocLog : \E b \in DOMAIN CurrentEpoch :
       /\ ~assocLog[o].input.found /\ assocLog[o].input.daFound
       /\ assocLog[o].scoreBefore > 0
       /\ assocLog[o].lostBefore = 0
       /\ CurrentEpoch[b].isFirst
       /\ CurrentEpoch[b].detection.idx = assocLog[o].input.jDA
       /\ CurrentEpoch[b].objectIndexForTracking = CurrentEpoch[o].objectIndexForTracking

\* the tracks that were matched to detection idx in the last step
\* (indicator(i, idx) = 1)
MatchedTo(idx) ==
  {o \in DOMAIN assocLog :
     assocLog[o].input.found /\ assocLog[o].lostBefore = 0 /\ assocLog[o].input.j = idx}

\* the node ids of the tracks of the epochs before the last one
NodesBefore ==
  UNION {UNION {{objects[k][o].poseNodeIndex, objects[k][o].velocityNodeIndex} :
                  o \in DOMAIN objects[k]} : k \in 1..(Len(objects) - 1)}

\* C24: after a step with at least one detection, a detection has a track
\* born from it exactly when no track was matched to it in the step, and it
\* has one such track at most; the track was registered with an objectIndex
\* no earlier epoch holds, two consecutive node ids that no other track, no
\* ego pose and no earlier estimate has, identity velocity, isFirst,
\* lostCount 0 and trackScore 0; its tracking index is that of a track
\* retired onto the detection in this step or, without one, an index that
\* no track had before and no other track of the epoch has.
C24_BirthIffUnmatched ==
  pc = "idle" /\ detections.n >= 1 =>
    /\ DOMAIN birthLog = {o \in DOMAIN CurrentEpoch : CurrentEpoch[o].isFirst}
    /\ \A idx \in 0..(detections.n - 1) :
         /\ (\E b \in DOMAIN birthLog : birthLog[b].detection.idx = idx)
              <=> MatchedTo(idx) = {}
         /\ Cardinality({b \in DOMAIN birthLog : birthLog[b].detection.idx = idx}) <= 1
    /\ \A b \in DOMAIN birthLog :
         LET born == birthLog[b]
             donors == RetiredOnto(born.detection.idx)
         IN /\ born.objectIndex = b
            /\ \A k \in 1..(Len(objects) - 1) : b \notin DOMAIN objects[k]
            /\ born.velocityNodeIndex = born.poseNodeIndex + 1
            /\ {born.poseNodeIndex, born.velocityNodeIndex}
                 \cap (NodesBefore \cup DOMAIN prevEstimate) = {}
            /\ \A k \in 1..Len(keyPoseIndices) :
                 keyPoseIndices[k] \notin {born.poseNodeIndex, born.velocityNodeIndex}
            /\ \A o \in DOMAIN CurrentEpoch :
                 o # b => {CurrentEpoch[o].poseNodeIndex, CurrentEpoch[o].velocityNodeIndex}
                            \cap {born.poseNodeIndex, born.velocityNodeIndex} = {}
            /\ born.velocity = 0
            /\ born.isFirst /\ born.lostCount = 0 /\ born.trackScore = 0
            /\ IF donors # {}
               THEN \E o \in donors :
                      born.objectIndexForTracking = CurrentEpoch[o].objectIndexForTracking
               ELSE /\ born.objectIndexForTracking \notin TrackingIndicesBefore(Len(objects))
                    /\ \A o \in DOMAIN CurrentEpoch :
                         o # b => CurrentEpoch[o].objectIndexForTracking
                                    # born.objectIndexForTracking

\* of two detections one is matched by a track of an earlier step and the
\* other gives birth to a track
C24_OneMatchedOneBorn ==
  /\ pc = "idle" /\ detections.n = 2
  /\ \E i, j \in 0..1 :
       /\ i # j
       /\ MatchedTo(i) # {}
       /\ \E b \in DOMAIN birthLog : birthLog[b].detection.idx = j

\* the places <<call, position>> of the detection factors that the solver
\* calls of the last step hold for track oi
DetectionFactorsOf(oi) ==
  UNION {{<<i, k>> : k \in {n \in 1..Len(solverCalls[i].graph) :
                              /\ solverCalls[i].graph[n].type \in DetectionFactorTypes
                              /\ solverCalls[i].graph[n].obj = oi}} :
           i \in 1..Len(solverCalls)}

\* the track was matched in the last step with a score that makes it a
\* candidate for tight coupling and failed the spatial or the velocity test
FailedTightCoupling(oi) ==
  /\ assocLog[oi].input.found
  /\ assocLog[oi].lostBefore = 0
  /\ incrementedTrackScore(assocLog[oi].scoreBefore) >= numberOfPreLooseCouplingSteps + 1
  /\ ~(/\ assocLog[oi].input.spatial
       /\ velocityIsConsistent(CurrentEpoch[oi], numberOfVelocityConsistencySteps,
                               prevEstimate,
                               objectLinearVelocityConsistencyVarianceThreshold))

\* C25: a matched track whose score after the increment is at least P + 1
\* and that fails the spatial or the velocity test ends the step with that
\* score reduced by numberOfInterLooseCouplingSteps and not tightly coupled,
\* and the solver calls of the step hold one detection factor for it: a
\* LooselyCoupledDetection, outside the main graph, between the ego pose
\* and its pose node, for the detection of the tight matching.
C25_FailedTightCouplingIsLoose ==
  \A oi \in DOMAIN assocLog :
    FailedTightCoupling(oi) =>
      /\ CurrentEpoch[oi].trackScore =
           incrementedTrackScore(assocLog[oi].scoreBefore) - numberOfInterLooseCouplingSteps
      /\ ~CurrentEpoch[oi].isTightlyCoupled
      /\ Cardinality(DetectionFactorsOf(oi)) = 1
      /\ \A p \in DetectionFactorsOf(oi) :
           LET f == solverCalls[p[1]].graph[p[2]]
           IN /\ p[1] >= 2
              /\ f.type = "LooselyCoupledDetection"
              /\ f.keys = <<Last(keyPoseIndices), CurrentEpoch[oi].poseNodeIndex>>
              /\ f.j = assocLog[oi].input.jTight

\* a candidate passes the spatial test, fails the velocity test and is
\* loosely coupled
C25_FailedVelocityTest ==
  \E oi \in DOMAIN assocLog :
    /\ FailedTightCoupling(oi)
    /\ assocLog[oi].input.spatial
    /\ DetectionFactorsOf(oi) # {}

\* a candidate fails the spatial test and is loosely coupled
C25_FailedSpatialTest ==
  \E oi \in DOMAIN assocLog :
    /\ FailedTightCoupling(oi)
    /\ ~assocLog[oi].input.spatial
    /\ HasLooseFactor(oi)

\* the main initial-values buffer at the first update of the last step, and
\* the loosely-coupled buffer at the update of the loose sub-graph
MainBuffer == IF solverCalls = <<>> THEN {} ELSE solverCalls[1].values
LooseBuffer ==
  UNION {solverCalls[i].values : i \in {n \in 2..Len(solverCalls) :
                                           solverCalls[n].kind = "update"}}

\* the nodes allocated for track oi in the last step
NodesOf(oi) == {CurrentEpoch[oi].poseNodeIndex, CurrentEpoch[oi].velocityNodeIndex}

\* C26 as stated: at the solver calls of a step the pose and velocity nodes
\* allocated for a track in the step have their initial values in the main
\* buffer if the track is tightly coupled in the step and in the
\* loosely-coupled buffer otherwise, and the buffers share no node.
C26_NodesInBufferOfCoupling ==
  (pc = "idle" /\ solverCalls # <<>>) =>
    /\ MainBuffer \cap LooseBuffer = {}
    /\ \A oi \in DOMAIN CurrentEpoch :
         CurrentEpoch[oi].poseNodeIndex # NoNode =>
           IF HasTightFactor(oi)
           THEN NodesOf(oi) \subseteq MainBuffer
           ELSE NodesOf(oi) \subseteq LooseBuffer

\* C26 for the tracks that are matched or born in the step
C26_MatchedNodesInBufferOfCoupling ==
  (pc = "idle" /\ solverCalls # <<>>) =>
    /\ MainBuffer \cap LooseBuffer = {}
    /\ \A oi \in DOMAIN CurrentEpoch :
         (CurrentEpoch[oi].poseNodeIndex # NoNode /\ CurrentEpoch[oi].lostCount = 0) =>
           IF HasTightFactor(oi)
           THEN NodesOf(oi) \subseteq MainBuffer
           ELSE NodesOf(oi) \subseteq LooseBuffer

\* a track that is lost in the step, without having been tightly coupled,
\* has the initial values of its new nodes in the main buffer
C26_LostTrackInMainBuffer ==
  /\ pc = "idle" /\ solverCalls # <<>>
  /\ \E oi \in DOMAIN CurrentEpoch :
       /\ CurrentEpoch[oi].poseNodeIndex # NoNode
       /\ CurrentEpoch[oi].lostCount > 0
       /\ ~CurrentEpoch[oi].isTightlyCoupled
       /\ NodesOf(oi) \subseteq MainBuffer

\* C27 as stated, in its weakest reading: in a step that couples some track
\* tightly, update() without arguments is called at least four times
\* between the update of the main graph and the read-back, whether or not
\* a loop or GPS factor was added.
C27_SweepsWhenTightlyCoupled ==
  (solverCalls # <<>> /\ \E oi \in DOMAIN CurrentEpoch : HasTightFactor(oi)) =>
    SweepsFrom(solverCalls, 2) >= 4

\* a step that couples a track tightly, adds neither a loop nor a GPS factor
\* and calls update() without arguments once after the main update
C27_TightlyCoupledOneSweep ==
  /\ solverCalls # <<>>
  /\ \E oi \in DOMAIN CurrentEpoch : HasTightFactor(oi)
  /\ ~AddsFactor("Loop") /\ ~AddsFactor("GPS")
  /\ SweepsFrom(solverCalls, 2) = 1

\* the main graph of the calls holds a loop-closure factor, a GPS factor or
\* a tightly-coupled detection factor
CorrectionIsDue(calls) ==
  calls # <<>> /\ \E f \in FactorsOf(calls[1]) :
                    f.type \in {"Loop", "GPS", "TightlyCoupledDetection"}

\* C28: a step that adds a loop-closure or GPS factor or couples a track
\* tightly leaves the sub-map cache empty and every stored keyframe pose
\* and the path, one entry for each keyframe, written in that step, the
\* correction coming after the read-back of the estimate and before the
\* publications; every other step leaves the keyframe poses and the path
\* entries it found as they were.  No step of any task changes the time or
\* cloud a keyframe was stored with or its position in the store.
C28_PosesRewrittenOnlyOnCorrection ==
  [][/\ (pc = "matching" /\ pc' = "idle") =>
          IF CorrectionIsDue(solverCalls')
          THEN /\ laserCloudMapContainer' = {}
               /\ cloudKeyPoses' # <<>>
               /\ \A i \in 1..Len(cloudKeyPoses') : cloudKeyPoses'[i] = stepCount'
               /\ globalPath' = [i \in 1..Len(cloudKeyPoses') |-> stepCount']
               /\ \E i \in 1..Len(stepTrace') :
                    /\ stepTrace'[i].op = "correctPoses"
                    /\ \A k \in 1..Len(stepTrace') :
                         /\ stepTrace'[k].op \in Publications => i < k
                         /\ stepTrace'[k].op \in ReadBacks => k < i
          ELSE /\ Len(cloudKeyPoses') >= Len(cloudKeyPoses)
               /\ \A i \in 1..Len(cloudKeyPoses) : cloudKeyPoses'[i] = cloudKeyPoses[i]
               /\ Len(globalPath') >= Len(globalPath)
               /\ \A i \in 1..Len(globalPath) : globalPath'[i] = globalPath[i]
     /\ Len(keyFrameClouds') >= Len(keyFrameClouds)
     /\ \A i \in 1..Len(keyFrameClouds) : keyFrameClouds'[i] = keyFrameClouds[i]
     /\ Len(keyFrameClouds') = Len(cloudKeyPoses')]_vars

\* a step without a keyframe, loop or GPS factor couples a track tightly and
\* rewrites the poses of two keyframes
C28_RewrittenWhenTightlyCoupled ==
  /\ pc = "idle" /\ ~requiredSaveFrame
  /\ \E oi \in DOMAIN CurrentEpoch : HasTightFactor(oi)
  /\ ~AddsFactor("Loop") /\ ~AddsFactor("GPS")
  /\ Len(cloudKeyPoses) >= 2
  /\ \A i \in 1..Len(cloudKeyPoses) : cloudKeyPoses[i] = stepCount
  /\ laserCloudMapContainer = {}

\* a step adds a loop factor and rewrites the poses
C28_RewrittenAfterLoop ==
  /\ pc = "idle" /\ AddsFactor("Loop")
  /\ \A i \in 1..Len(cloudKeyPoses) : cloudKeyPoses[i] = stepCount

\* a step adds a keyframe to two others and rewrites nothing
C28_KeptWithoutCorrection ==
  /\ pc = "idle" /\ requiredSaveFrame /\ ~CorrectionIsDue(solverCalls)
  /\ Len(cloudKeyPoses) = 3
  /\ cloudKeyPoses[1] < stepCount /\ globalPath[1] < stepCount

ObjectFactorTypes ==
  {"TightlyCoupledDetection", "LooselyCoupledDetection", "PriorVelocity",
   "ConstantVelocity", "StablePose"}

\* the node ids an epoch holds
NodesOfEpoch(epoch) ==
  UNION {{epoch[o].poseNodeIndex, epoch[o].velocityNodeIndex} : o \in DOMAIN epoch}
    \ {NoNode}

\* C29: a step without a keyframe appends one epoch, in which every track
\* of the epoch before that is not dropped is propagated, with two new
\* nodes if it was not lost; numberOfNodes grows by the object nodes only
\* and the solver is handed object factors only.  The ego keys, the
\* keyframe store, the length of the path, the loop queues and the GPS
\* queue stay as they were, and the initial value inserted for the latest
\* ego key is erased before the first update, so that no update is handed
\* a value for it.
C29_StepWithoutKeyframe ==
  [][(pc = "matching" /\ pc' = "idle" /\ ~requiredSaveFrame') =>
       /\ objects # <<>>
       /\ Len(objects') = Len(objects) + 1
       /\ \A oi \in DOMAIN Last(objects) :
            LET before == Last(objects)[oi] IN
            /\ before.lostCount <= trackingStepsForLostObject
                 <=> oi \in DOMAIN Last(objects')
            /\ before.lostCount = 0 =>
                 /\ Last(objects')[oi].poseNodeIndex >= numberOfNodes
                 /\ Last(objects')[oi].velocityNodeIndex >= numberOfNodes
            /\ (before.lostCount > 0 /\ oi \in DOMAIN Last(objects')) =>
                 Last(objects')[oi].poseNodeIndex = NoNode
       /\ numberOfNodes' = numberOfNodes + Cardinality(NodesOfEpoch(Last(objects')))
       /\ \A n \in NodesOfEpoch(Last(objects')) : numberOfNodes <= n /\ n < numberOfNodes'
       /\ \A i \in 1..Len(solverCalls') : \A f \in FactorsOf(solverCalls'[i]) :
            f.type \in ObjectFactorTypes
       /\ \A oi \in DOMAIN Last(objects') :
            Last(objects')[oi].lostCount = 0 =>
              \E i \in 1..Len(solverCalls') : \E f \in FactorsOf(solverCalls'[i]) :
                f.type \in DetectionFactorTypes /\ f.obj = oi
       /\ keyPoseIndices' = keyPoseIndices
       /\ cloudKeyPoses' # <<>> /\ Len(cloudKeyPoses') = Len(cloudKeyPoses)
       /\ keyFrameClouds' = keyFrameClouds
       /\ Len(globalPath') = Len(globalPath)
       /\ loopIndexQueue' = loopIndexQueue
       /\ loopPoseQueue' = loopPoseQueue
       /\ loopNoiseQueue' = loopNoiseQueue
       /\ loopIndexAdded' = loopIndexAdded
       /\ gpsQueue' = gpsQueue /\ lastGPSPoint' = lastGPSPoint
       /\ \A i \in 1..Len(solverCalls') : Last(keyPoseIndices) \notin solverCalls'[i].values
       /\ \E i, k \in 1..Len(stepTrace') :
            /\ stepTrace'[i] = Op("insert", Last(keyPoseIndices))
            /\ stepTrace'[k] = Op("erase", Last(keyPoseIndices))
            /\ i < k
            /\ \A u \in 1..Len(stepTrace') : stepTrace'[u].op \in Updates => k < u]_vars

\* a step without a keyframe, with a loop constraint waiting in the queue,
\* propagates one track and gives birth to none or another
C29_TrackedWithoutKeyframe ==
  /\ pc = "idle" /\ ~requiredSaveFrame
  /\ loopIndexQueue # <<>>
  /\ \E oi \in DOMAIN CurrentEpoch :
       ~CurrentEpoch[oi].isFirst /\ CurrentEpoch[oi].poseNodeIndex # NoNode
  /\ StepFactors # {}

\* the places <<call, position>> of the factors of a type that the solver
\* calls of the last step hold for track oi
MotionFactorsOf(oi, type) ==
  UNION {{<<i, k>> : k \in {n \in 1..Len(solverCalls[i].graph) :
                              /\ solverCalls[i].graph[n].type = type
                              /\ solverCalls[i].graph[n].obj = oi}} :
           i \in 1..Len(solverCalls)}

\* C30: after a step, a track of the newest epoch that is neither first nor
\* lost has one ConstantVelocity factor, from its velocity node of the
\* epoch before to the new one, and one StablePose factor, on its pose and
\* velocity node of the epoch before and its new pose node, both in the
\* main graph if it is tightly coupled in the step and both in the loose
\* sub-graph otherwise; a first or lost track has neither, and no factor of
\* these types belongs to a track outside the epoch.
C30_OneMotionFactorPair ==
  (pc = "idle" /\ solverCalls # <<>>) =>
    /\ \A i \in 1..Len(solverCalls) : \A f \in FactorsOf(solverCalls[i]) :
         f.type \in {"ConstantVelocity", "StablePose"} => f.obj \in DOMAIN CurrentEpoch
    /\ \A oi \in DOMAIN CurrentEpoch :
         LET cur == CurrentEpoch[oi]
             cv == MotionFactorsOf(oi, "ConstantVelocity")
             sp == MotionFactorsOf(oi, "StablePose")
         IN IF cur.isFirst \/ cur.lostCount > 0
            THEN cv = {} /\ sp = {}
            ELSE /\ Cardinality(cv) = 1 /\ Cardinality(sp) = 1
                 /\ Len(objects) >= 2 /\ oi \in DOMAIN objects[Len(objects) - 1]
                 /\ cur.isTightlyCoupled <=> HasTightFactor(oi)
                 /\ \A p \in cv \cup sp :
                      IF HasTightFactor(oi) THEN p[1] = 1
                      ELSE p[1] >= 2 /\ solverCalls[p[1]].kind = "update"
                 /\ \A p \in cv :
                      solverCalls[p[1]].graph[p[2]].keys =
                        <<objects[Len(objects) - 1][oi].velocityNodeIndex,
                          cur.velocityNodeIndex>>
                 /\ \A p \in sp :
                      solverCalls[p[1]].graph[p[2]].keys =
                        <<objects[Len(objects) - 1][oi].poseNodeIndex,
                          objects[Len(objects) - 1][oi].velocityNodeIndex,
                          cur.poseNodeIndex>>
                 /\ objects[Len(objects) - 1][oi].velocityNodeIndex # NoNode

\* a step with a tightly coupled track, whose motion factors are in the
\* main graph, and a first track
C30_TightFirstAndLost ==
  /\ pc = "idle"
  /\ \E a, b \in DOMAIN CurrentEpoch :
       /\ HasTightFactor(a)
       /\ MotionFactorsOf(a, "StablePose") # {}
       /\ CurrentEpoch[b].isFirst

\* a step with a loosely coupled track that has its motion factors in the
\* loose sub-graph and a lost track
C30_LooseAndLost ==
  /\ pc = "idle"
  /\ \E a, b \in DOMAIN CurrentEpoch :
       /\ HasLooseFactor(a) /\ ~CurrentEpoch[a].isFirst
       /\ MotionFactorsOf(a, "ConstantVelocity") # {}
       /\ CurrentEpoch[b].lostCount > 0

\* C31, amended: a track is matched against the early-loose-matching
\* profile exactly when its trackScore is below P and its path has at most
\* numberOfEarlySteps points when the step begins; in every other case, a
\* track with trackScore P included, it is matched against the
\* loose-matching profile.
C31_EarlyProfileBelowP ==
  [][(pc = "matching" /\ pc' = "idle") =>
       \A oi \in DOMAIN assocLog' :
         /\ oi \in DOMAIN pathLen
         /\ assocLog'[oi].profile \in {"earlyLooseMatching", "looseMatching"}
         /\ assocLog'[oi].profile = "earlyLooseMatching"
              <=> /\ assocLog'[oi].scoreBefore < numberOfPreLooseCouplingSteps
                  /\ pathLen[oi] <= numberOfEarlySteps]_vars

\* C31 as stated: a track is matched against the early-loose-matching
\* profile exactly when its trackScore is not P + 1 and its path has at
\* most numberOfEarlySteps points.
C31_EarlyProfileUnlessAtCap ==
  [][(pc = "matching" /\ pc' = "idle") =>
       \A oi \in DOMAIN assocLog' :
         assocLog'[oi].profile = "earlyLooseMatching"
           <=> /\ assocLog'[oi].scoreBefore # numberOfPreLooseCouplingSteps + 1
               /\ oi \in DOMAIN pathLen
               /\ pathLen[oi] <= numberOfEarlySteps]_vars

\* a track with trackScore P and a path of at most numberOfEarlySteps
\* points has been matched against the loose-matching profile
C31_LooseProfileAtP ==
  /\ pc = "idle"
  /\ \E oi \in DOMAIN assocLog :
       /\ assocLog[oi].scoreBefore = numberOfPreLooseCouplingSteps
       /\ assocLog[oi].profile = "looseMatching"
       /\ pathLen[oi] <= numberOfEarlySteps

\* a track with trackScore below P and a short path has been matched
\* against the early-loose-matching profile
C31_EarlyProfileUsed ==
  /\ pc = "idle"
  /\ \E oi \in DOMAIN assocLog :
       /\ assocLog[oi].scoreBefore < numberOfPreLooseCouplingSteps
       /\ assocLog[oi].profile = "earlyLooseMatching"

\* C32: every update of transformTobeMapped in a scan-matching step is
\* made with the degeneracy flag and the projection that iteration 0 of
\* the same step has computed from the eigenvalues of that step.
C32_DegeneracyOfTheSameStep ==
  pc = "idle" =>
    \A a \in degenerateLog.applied :
      /\ a.computedAt = stepCount
      /\ a.isDegenerate = (degenerateLog.dirs # {})
      /\ a.matP = (1..6) \ degenerateLog.dirs
      /\ \E first \in degenerateLog.applied : first.iterCount = 0

\* a third step updates the pose in more than one iteration under a
\* projection that drops the x translation
C32_ProjectedInLaterIterations ==
  /\ pc = "idle" /\ stepCount = 3
  /\ isDegenerate /\ matP = (1..6) \ {4}
  /\ \E a \in degenerateLog.applied : a.iterCount > 0

\* a step whose scan has too few correspondences keeps the flag of an
\* earlier step and updates nothing
C32_StaleFlagNotApplied ==
  /\ pc = "idle" /\ scanLog.scan.enough
  /\ isDegenerate
  /\ degenerateLog.computedAt < stepCount
  /\ degenerateLog.applied = {}

\* the positions of the loop-closure task inside its critical sections
LoopCriticalSections == {"copying", "pushIndex", "pushPose", "pushNoise"}

\* C33: the loop-closure task owns the lock exactly in its two critical
\* sections, the copy of the keyframe poses and the three push_back calls;
\* the copy and the queues change there only, apart from the handler;
\* whenever the handler owns the lock the three loop queues have the same
\* length; and a step of the handler leaves the three queues as they were
\* or empties all three, turning every queued pair into a loop factor.
C33_LoopQueuesUnderOneLock ==
  [][/\ mtxOwner' = "loop" <=> loopPc' \in LoopCriticalSections
     /\ mtxOwner' = "main" =>
          /\ Len(loopIndexQueue') = Len(loopPoseQueue')
          /\ Len(loopPoseQueue') = Len(loopNoiseQueue')
     /\ copyKeyPoses' # copyKeyPoses => mtxOwner = "loop"
     /\ (pc' = pc /\ <<loopIndexQueue, loopPoseQueue, loopNoiseQueue>>'
                       # <<loopIndexQueue, loopPoseQueue, loopNoiseQueue>>)
          => mtxOwner = "loop"
     /\ (pc = "matching" /\ pc' = "idle") =>
          \/ /\ requiredSaveFrame'
             /\ loopIndexQueue' = <<>> /\ loopPoseQueue' = <<>> /\ loopNoiseQueue' = <<>>
             /\ loopIndexAdded' = loopIndexAdded \o loopIndexQueue
          \/ /\ ~requiredSaveFrame'
             /\ UNCHANGED <<loopIndexQueue, loopPoseQueue, loopNoiseQueue,
                            loopIndexAdded>>]_vars

\* the handler waits for the lock while the loop-closure task has pushed
\* the index pair of a second constraint and not yet its pose and noise
C33_HandlerWaitsForTheQueues ==
  /\ pc = "idle" /\ mtxOwner = "loop" /\ loopPc = "pushPose"
  /\ Len(loopIndexQueue) = 2 /\ Len(loopPoseQueue) = 1

\* the handler has drained the queues into a loop factor
C33_ConstraintDrained ==
  /\ pc = "idle" /\ loopIndexQueue = <<>> /\ Len(loopIndexAdded) = 1
  /\ AddsFactor("Loop")

\* the keys the factors of the last step refer to
KeysOfStepFactors == UNION {{f.keys[k] : k \in 1..Len(f.keys)} : f \in StepFactors}

\* C34 as stated: every key whose initial value is handed to the solver in
\* a step is a key of some factor handed to it in the same step.
C34_EveryValueHasAFactor ==
  pc = "idle" =>
    \A i \in 1..Len(solverCalls) : solverCalls[i].values \subseteq KeysOfStepFactors

\* the nodes allocated for a track that is lost in the step are handed to
\* the solver and no factor of the step refers to them
C34_LostTrackNodesWithoutFactor ==
  /\ pc = "idle" /\ solverCalls # <<>>
  /\ \E oi \in DOMAIN CurrentEpoch :
       /\ CurrentEpoch[oi].lostCount > 0
       /\ CurrentEpoch[oi].poseNodeIndex # NoNode
       /\ NodesOf(oi) \subseteq solverCalls[1].values
       /\ NodesOf(oi) \cap KeysOfStepFactors = {}

\* the keys allocated as ego keys
EgoKeys == {keyPoseIndices[i] : i \in 1..Len(keyPoseIndices)}

\* C35 as stated: the loop factor added for the keyframe pair (cur, pre)
\* connects the ego keys of the keyframes cur and pre, and a GPS factor is
\* on the ego key of the keyframe added in that step.
C35_LoopAndGpsOnEgoKeys ==
  pc = "idle" =>
    /\ \A i \in 1..Len(loopIndexAdded) :
         loopIndexAdded[i] = <<keyPoseIndices[loopIndexEnqueued[i][1] + 1],
                               keyPoseIndices[loopIndexEnqueued[i][2] + 1]>>
    /\ \A f \in MainGraph :
         f.type = "GPS" => f.keys = <<Last(keyPoseIndices)>>

\* a loop factor on a key that is the node of a track
C35_LoopFactorOnObjectNode ==
  /\ pc = "idle"
  /\ \E f \in MainGraph :
       /\ f.type = "Loop"
       /\ \E k \in 1..2 : f.keys[k] \notin EgoKeys /\ f.keys[k] \in NodesBefore

\* a GPS factor on a key that is the node of a track
C35_GpsFactorOnObjectNode ==
  /\ pc = "idle"
  /\ \E f \in MainGraph :
       /\ f.type = "GPS"
       /\ f.keys[1] \notin EgoKeys /\ f.keys[1] \in NodesBefore

\* the tracks that were found and not lost in the last step
MatchedTracks ==
  {o \in DOMAIN assocLog : assocLog[o].input.found /\ assocLog[o].lostBefore = 0}

\* C36 as stated: the detection factor of a matched track carries the
\* detection index that the indicator marks for the track and that is stored
\* as its detection, and no track is born in the step from a detection that
\* the factor of a matched track uses.
C36_FactorIndexIsIndicatorIndex ==
  \A oi \in MatchedTracks :
    \A p \in DetectionFactorsOf(oi) :
      LET f == solverCalls[p[1]].graph[p[2]]
      IN /\ f.j = assocLog[oi].input.j
         /\ f.j = CurrentEpoch[oi].detection.idx
         /\ \A b \in DOMAIN birthLog : birthLog[b].detection.idx # f.j

\* the factor of a matched track carries a detection that also gave birth
\* to a track in the step
C36_FactorDetectionBirthsTrack ==
  \E oi \in MatchedTracks :
    \E p \in DetectionFactorsOf(oi) :
      LET f == solverCalls[p[1]].graph[p[2]]
      IN /\ f.j # CurrentEpoch[oi].detection.idx
         /\ \E b \in DOMAIN birthLog : birthLog[b].detection.idx = f.j

\* for a matched track that is no candidate for tight coupling, the factor
\* carries the detection index of the indicator and of the stored detection
C36_IndexOfTracksNotTested ==
  \A oi \in MatchedTracks :
    ~isCouplingCandidate(incrementedTrackScore(assocLog[oi].scoreBefore)) =>
      \A p \in DetectionFactorsOf(oi) :
        LET f == solverCalls[p[1]].graph[p[2]]
        IN /\ f.j = assocLog[oi].input.j
           /\ f.j = CurrentEpoch[oi].detection.idx

\* C37 as stated: in a step every detection is marked in the indicator for
\* one track at most, and no two tracks get a detection factor for the same
\* detection in the step.
C37_OneTrackPerDetection ==
  /\ \A o1 \in MatchedTracks : \A o2 \in MatchedTracks :
       assocLog[o1].input.j = assocLog[o2].input.j => o1 = o2
  /\ \A o1 \in MatchedTracks : \A o2 \in MatchedTracks :
       \A p1 \in DetectionFactorsOf(o1) : \A p2 \in DetectionFactorsOf(o2) :
         solverCalls[p1[1]].graph[p1[2]].j = solverCalls[p2[1]].graph[p2[2]].j
           => o1 = o2

\* two tracks are marked for one detection and both get a detection factor
\* for it
C37_TwoTracksOnOneDetection ==
  \E o1 \in MatchedTracks : \E o2 \in MatchedTracks :
    /\ o1 # o2
    /\ assocLog[o1].input.j = assocLog[o2].input.j
    /\ \E p1 \in DetectionFactorsOf(o1) : \E p2 \in DetectionFactorsOf(o2) :
         /\ solverCalls[p1[1]].graph[p1[2]].j = assocLog[o1].input.j
         /\ solverCalls[p2[1]].graph[p2[2]].j = assocLog[o1].input.j

\* the tracks of the current epoch that are not lost for more than
\* trackingStepsForLostObject steps
LiveTracks ==
  {o \in DOMAIN CurrentEpoch : CurrentEpoch[o].lostCount <= trackingStepsForLostObject}

\* C38: at the end of every step no two tracks of the current epoch with
\* lostCount <= trackingStepsForLostObject have the same tracking index,
\* also when a track born in the step took the index of a retired track.
C38_LiveTracksHaveOwnTrackingIndex ==
  \A o1 \in LiveTracks : \A o2 \in LiveTracks :
    CurrentEpoch[o1].objectIndexForTracking = CurrentEpoch[o2].objectIndexForTracking
      => o1 = o2

\* a track born in the step has the tracking index of a track of the epoch
\* that was retired onto its detection
C38_IndexSharedWithRetiredTrack ==
  \E b \in LiveTracks : \E o \in DOMAIN CurrentEpoch :
    /\ o # b
    /\ CurrentEpoch[b].isFirst
    /\ o \in RetiredOnto(CurrentEpoch[b].detection.idx)
    /\ CurrentEpoch[o].objectIndexForTracking = CurrentEpoch[b].objectIndexForTracking

\* two live tracks at the end of a step, one born with an index of its own
\* while the other is lost and has kept its index
C38_LostAndBornTrack ==
  \E b \in LiveTracks : \E o \in LiveTracks :
    /\ o # b
    /\ CurrentEpoch[b].isFirst
    /\ CurrentEpoch[o].lostCount >= 1

\* the node ids of the entries of track oi, in the epoch of the last step
\* and the one before, that ended their step with lostCount == 0
MatchedNodesOf(oi) ==
  UNION {{objects[e][oi].poseNodeIndex, objects[e][oi].velocityNodeIndex} :
           e \in {k \in {Len(objects) - 1, Len(objects)} :
                    /\ k >= 1
                    /\ oi \in DOMAIN objects[k]
                    /\ objects[k][oi].lostCount = 0}}

\* the keys of a factor that stand for nodes of its track
ObjectKeysOf(f) ==
  IF f.type \in DetectionFactorTypes THEN {f.keys[2]}
  ELSE {f.keys[k] : k \in 1..Len(f.keys)}

\* C39: the node id NoNode that propagation gives to a lost track is in no
\* factor and no initial value submitted to the solver, and is not read back
\* from the estimate: every node id of a factor of a track belongs to an
\* entry of the track, of the step or the one before, with lostCount == 0;
\* the step reads the estimate for tracks with lostCount == 0 only; every
\* entry of an epoch with lostCount == 0, which is what
\* saveEstimationResultService reads, has node ids other than NoNode, and so
\* has every velocity node that velocityIsConsistent reads.
C39_NoNodeNeverUsed ==
  /\ \A i \in 1..Len(solverCalls) :
       /\ NoNode \notin solverCalls[i].values
       /\ \A f \in FactorsOf(solverCalls[i]) :
            /\ \A k \in 1..Len(f.keys) : f.keys[k] # NoNode
            /\ f.obj # -1 => ObjectKeysOf(f) \subseteq MatchedNodesOf(f.obj) \ {NoNode}
  /\ \A p \in Positions({"readBackObject"}) :
       LET oi == stepTrace[p].arg
       IN /\ oi \in DOMAIN CurrentEpoch
          /\ CurrentEpoch[oi].lostCount = 0
          /\ CurrentEpoch[oi].poseNodeIndex # NoNode
          /\ CurrentEpoch[oi].velocityNodeIndex # NoNode
  /\ \A e \in 1..Len(objects) : \A oi \in DOMAIN objects[e] :
       /\ objects[e][oi].lostCount = 0 =>
            /\ objects[e][oi].poseNodeIndex # NoNode
            /\ objects[e][oi].velocityNodeIndex # NoNode
       /\ \A k \in 1..Len(objects[e][oi].previousVelocityNodeIndices) :
            objects[e][oi].previousVelocityNodeIndices[k] # NoNode

\* a track that was propagated as lost stands in the epoch with NoNode while
\* another track gets motion factors and is read back in the same step
C39_LostTrackBesideMatchedTrack ==
  \E o \in DOMAIN CurrentEpoch : \E m \in DOMAIN CurrentEpoch :
    /\ CurrentEpoch[o].poseNodeIndex = NoNode
    /\ CurrentEpoch[o].lostCount > 0
    /\ CurrentEpoch[m].lostCount = 0
    /\ \E f \in StepFactors : f.type = "ConstantVelocity" /\ f.obj = m
    /\ \E p \in Positions({"readBackObject"}) : stepTrace[p].arg = m

\* a track that was propagated as lost is found again and retired: it gets
\* no factor and is not read back
C39_LostTrackFoundGetsNoFactor ==
  \E o \in DOMAIN assocLog :
    /\ assocLog[o].lostBefore >= 1
    /\ assocLog[o].input.found
    /\ CurrentEpoch[o].poseNodeIndex = NoNode
    /\ \A f \in StepFactors : f.obj # o
    /\ \A p \in Positions({"readBackObject"}) : stepTrace[p].arg # o
    /\ Positions({"readBackObject"}) # {}

\* C40: at the end of every processed step the ego keys, the keyframe poses
\* (3D and 6D), the edge clouds, the plane clouds and the path entries are
\* equal in number, whether or not correctPoses rewrote the poses.
C40_KeyframeStoresOfEqualLength ==
  pc = "idle" =>
    /\ Len(cloudKeyPoses) = Len(keyPoseIndices)
    /\ Len(cloudKeyPoses6D) = Len(keyPoseIndices)
    /\ Len(keyFrameClouds) = Len(keyPoseIndices)
    /\ Len(surfCloudKeyFrames) = Len(keyPoseIndices)
    /\ Len(globalPath) = Len(keyPoseIndices)

\* a step without a keyframe in which correctPoses rewrote the poses of two
\* keyframes or more and rebuilt the path
C40_CorrectedWithoutKeyframe ==
  /\ pc = "idle"
  /\ ~requiredSaveFrame
  /\ Len(keyPoseIndices) >= 2
  /\ Positions({"correctPoses"}) # {}
  /\ Len(globalPath) = Len(keyPoseIndices)

\* a keyframe step without correction that appended its entry to a path
\* holding an entry of an earlier step
C40_KeyframeWithoutCorrection ==
  /\ pc = "idle"
  /\ requiredSaveFrame
  /\ Len(keyPoseIndices) >= 2
  /\ Positions({"correctPoses"}) = {}
  /\ \E i \in 1..(Len(globalPath) - 1) : globalPath[i] # globalPath[Len(globalPath)]

====
